---------------------------- MODULE Spec2Model ----------------------------
(***************************************************************************)
(* EventSphere: a model of the request handlers under src/app/routes and   *)
(* of the rows they keep in the relational store (src/app/models).         *)
(*                                                                         *)
(* A handler that runs between two awaits of other requests is one action; *)
(* the participation upsert, whose race the specification describes, is    *)
(* split at its awaits (lookup, then commit).  Each action records the     *)
(* HTTP status it answers with in resp.                                    *)
(*                                                                         *)
(* Tables are functions from the primary key (id) to the row.  The store   *)
(* hands out max(id)+1 as the next key.  UNIQUE, CHECK and NOT NULL        *)
(* constraints are always enforced; FOREIGN KEY constraints are enforced   *)
(* only when fk_enforced holds (PostgreSQL enforces them, the default      *)
(* SQLite URL of src/app/config.py does not).                              *)
(***************************************************************************)
EXTENDS Integers, FiniteSets, Sequences, TLC

(***************************************************************************)
(* Bounds of the model.                                                    *)
(***************************************************************************)
MaxComments == 3
MaxThread == 6
MaxSubscriptions == 3
MaxParticipations == 2
MaxInFlight == 2
MaxEvents == 2
MaxReviews == 2
MaxTickets == 2
MaxUsers == 5

(***************************************************************************)
(* HTTP status codes the handlers answer with.                             *)
(***************************************************************************)
HTTP_200_OK == 200
HTTP_201_CREATED == 201
HTTP_204_NO_CONTENT == 204
HTTP_400_BAD_REQUEST == 400
HTTP_401_UNAUTHORIZED == 401
HTTP_403_FORBIDDEN == 403
HTTP_404_NOT_FOUND == 404
HTTP_409_CONFLICT == 409
HTTP_500_INTERNAL_SERVER_ERROR == 500

\* the deepest level a comment may have (routes/comments.py: parent.depth >= 4)
MAX_PARENT_DEPTH == 4

VARIABLES
    fk_enforced,     \* whether the configured store enforces FOREIGN KEY
    users,           \* id -> [role, is_active, email, name]
    categories,      \* set of category ids
    events,          \* id -> [author_id, category_id]
    participations,  \* id -> [user_id, event_id, status]
    subscriptions,   \* id -> [follower_id, followee_id]
    comments,        \* id -> [event_id, author_id, parent_comment_id, depth, reply_count]
    reviews,         \* id -> [event_id, author_id, rating]
    tickets,         \* id -> [user_id, event_id, price]
    reqs,            \* request slot -> the in-flight set-status request
    resp             \* the response of the last handler that finished

vars == <<fk_enforced, users, categories, events, participations,
          subscriptions, comments, reviews, tickets, reqs, resp>>

\* Python's None (an absent parent, an explicit JSON null)
None == "None"
\* None where an integer is expected (no row found, no parent comment, null)
NoId == -1
\* a field the request body does not carry (pydantic: not in model_fields_set)
Unset == "Unset"
\* the same where an integer is expected
UnsetId == -2

Roles == {"user", "organizer", "admin"}
StatusVariation == {"going", "interested", "not going"}

Max(S) == IF S = {} THEN 0 ELSE CHOOSE x \in S : \A y \in S : y <= x

\* the primary key the store gives the next row of a table
NextId(table) == Max(DOMAIN table) + 1

\* table with the row of key id removed
Without(table, ids) == [i \in (DOMAIN table) \ ids |-> table[i]]

\* table with one more row
WithRow(table, row) == (NextId(table) :> row) @@ table

(***************************************************************************)
(* src/app/auth/dependencies.py.  A bearer token is modelled by the user   *)
(* id of its "sub" claim; 0 is a missing, malformed or expired token.      *)
(* Each dependency yields the status it raises, or HTTP_200_OK when the    *)
(* request goes on to the handler.                                         *)
(***************************************************************************)
get_current_user(tok) ==
    IF tok \in DOMAIN users THEN HTTP_200_OK ELSE HTTP_401_UNAUTHORIZED

\* the active flag is the one the user had when the token was issued (of the
\* users there are at the start, user 4 alone is inactive)
get_current_active_user_IssuedFlag(tok) ==
    IF get_current_user(tok) # HTTP_200_OK THEN get_current_user(tok)
    ELSE IF tok \in {4} THEN HTTP_400_BAD_REQUEST
    ELSE HTTP_200_OK

get_current_active_user(tok) ==
    IF get_current_user(tok) # HTTP_200_OK THEN get_current_user(tok)
    ELSE IF ~users[tok].is_active THEN HTTP_400_BAD_REQUEST
    ELSE HTTP_200_OK

\* the role is tested before the active flag
get_current_admin_user_RoleFirst(tok) ==
    IF get_current_user(tok) # HTTP_200_OK THEN get_current_user(tok)
    ELSE IF users[tok].role # "admin" THEN HTTP_403_FORBIDDEN
    ELSE IF ~users[tok].is_active THEN HTTP_400_BAD_REQUEST
    ELSE HTTP_200_OK

get_current_admin_user(tok) ==
    IF get_current_active_user(tok) # HTTP_200_OK THEN get_current_active_user(tok)
    ELSE IF users[tok].role # "admin" THEN HTTP_403_FORBIDDEN
    ELSE HTTP_200_OK

\* the role of the requester is not looked at
get_current_organizer_user_AnyRole(tok) == get_current_active_user(tok)

get_current_organizer_user(tok) ==
    IF get_current_active_user(tok) # HTTP_200_OK THEN get_current_active_user(tok)
    ELSE IF users[tok].role \notin {"organizer", "admin"} THEN HTTP_403_FORBIDDEN
    ELSE HTTP_200_OK

\* a FOREIGN KEY to users.id / events.id / category.id that the store rejects
FkUserViolated(user_id) == fk_enforced /\ user_id \notin DOMAIN users
FkEventViolated(event_id) == fk_enforced /\ event_id \notin DOMAIN events
FkCategoryViolated(category_id) == fk_enforced /\ category_id \notin categories

(***************************************************************************)
(* Fixtures: the rows the specifications below start from.                 *)
(***************************************************************************)
UserRow(role, is_active, email) ==
    [role |-> role, is_active |-> is_active, email |-> email, name |-> None]

InitUsers ==
    (1 :> UserRow("admin", TRUE, "e1")) @@ (2 :> UserRow("organizer", TRUE, "e2"))
    @@ (3 :> UserRow("user", TRUE, "e3")) @@ (4 :> UserRow("user", FALSE, "e4"))

NoResponse == [op |-> "none", code |-> HTTP_200_OK]
NoTable == [i \in {} |-> None]

(***************************************************************************)
(* src/app/routes/subscriptions.py                                         *)
(***************************************************************************)
SubscriptionExists(follower_id, followee_id) ==
    \E i \in DOMAIN subscriptions :
        /\ subscriptions[i].follower_id = follower_id
        /\ subscriptions[i].followee_id = followee_id

\* Subscription.__table_args__ and the two foreign keys: the INSERT is rejected
SubscriptionInsertViolates(follower_id, followee_id) ==
    \/ SubscriptionExists(follower_id, followee_id)       \* uq_follower_followee
    \/ follower_id = followee_id                          \* cc_user_cannot_follow_self
    \/ FkUserViolated(follower_id)
    \/ FkUserViolated(followee_id)

\* the handler without its self-subscription test
subscribe_to_user_code_NoSelfTest(tok, followee_id) ==
    IF get_current_active_user(tok) # HTTP_200_OK THEN get_current_active_user(tok)
    ELSE IF followee_id \notin DOMAIN users THEN HTTP_404_NOT_FOUND
    ELSE IF SubscriptionExists(tok, followee_id) THEN HTTP_409_CONFLICT
    ELSE IF SubscriptionInsertViolates(tok, followee_id) THEN HTTP_409_CONFLICT
    ELSE HTTP_201_CREATED

subscribe_to_user_code(tok, followee_id) ==
    IF get_current_active_user(tok) # HTTP_200_OK THEN get_current_active_user(tok)
    ELSE IF tok = followee_id THEN HTTP_400_BAD_REQUEST
    ELSE IF followee_id \notin DOMAIN users THEN HTTP_404_NOT_FOUND
    ELSE IF SubscriptionExists(tok, followee_id) THEN HTTP_409_CONFLICT
    ELSE IF SubscriptionInsertViolates(tok, followee_id) THEN HTTP_409_CONFLICT
    ELSE HTTP_201_CREATED

subscribe_to_user(tok, followee_id) ==
    LET code == subscribe_to_user_code(tok, followee_id) IN
    /\ subscriptions' =
          IF code = HTTP_201_CREATED
          THEN WithRow(subscriptions, [follower_id |-> tok, followee_id |-> followee_id])
          ELSE subscriptions
    /\ resp' = [op |-> "subscribe_to_user", code |-> code, tok |-> tok,
                follower_id |-> tok, followee_id |-> followee_id]
    /\ UNCHANGED <<fk_enforced, users, categories, events, participations, comments,
                   reviews, tickets, reqs>>

\* the rows unsubscribe_from_user's query selects
SubscriptionRows(follower_id, followee_id) ==
    {i \in DOMAIN subscriptions :
        /\ subscriptions[i].follower_id = follower_id
        /\ subscriptions[i].followee_id = followee_id}

\* a missing row answers 404 instead of 204
unsubscribe_from_user_code_NotFound(tok, followee_id) ==
    IF get_current_active_user(tok) # HTTP_200_OK THEN get_current_active_user(tok)
    ELSE IF SubscriptionRows(tok, followee_id) = {} THEN HTTP_404_NOT_FOUND
    ELSE HTTP_204_NO_CONTENT

\* no row: 204 at once; a row: delete, commit, 204
unsubscribe_from_user_code(tok, followee_id) ==
    IF get_current_active_user(tok) # HTTP_200_OK THEN get_current_active_user(tok)
    ELSE HTTP_204_NO_CONTENT

unsubscribe_from_user(tok, followee_id) ==
    LET code == unsubscribe_from_user_code(tok, followee_id)
        rows == SubscriptionRows(tok, followee_id)
        \* result.scalars().first()
        found == IF rows = {} THEN {} ELSE {CHOOSE i \in rows : \A j \in rows : i <= j}
    IN
    /\ subscriptions' =
          IF code = HTTP_204_NO_CONTENT THEN Without(subscriptions, found)
          ELSE subscriptions
    /\ resp' = [op |-> "unsubscribe_from_user", code |-> code, tok |-> tok,
                follower_id |-> tok, followee_id |-> followee_id,
                found |-> (code = HTTP_204_NO_CONTENT /\ found # {})]
    /\ UNCHANGED <<fk_enforced, users, categories, events, participations, comments,
                   reviews, tickets, reqs>>

create_subscription_by_admin_code(tok, follower_id, followee_id) ==
    IF get_current_admin_user(tok) # HTTP_200_OK THEN get_current_admin_user(tok)
    ELSE IF follower_id = followee_id THEN HTTP_400_BAD_REQUEST
    ELSE IF SubscriptionInsertViolates(follower_id, followee_id) THEN HTTP_409_CONFLICT
    ELSE HTTP_201_CREATED

create_subscription_by_admin(tok, follower_id, followee_id) ==
    LET code == create_subscription_by_admin_code(tok, follower_id, followee_id) IN
    /\ subscriptions' =
          IF code = HTTP_201_CREATED
          THEN WithRow(subscriptions,
                       [follower_id |-> follower_id, followee_id |-> followee_id])
          ELSE subscriptions
    /\ resp' = [op |-> "create_subscription_by_admin", code |-> code, tok |-> tok,
                follower_id |-> follower_id, followee_id |-> followee_id]
    /\ UNCHANGED <<fk_enforced, users, categories, events, participations, comments,
                   reviews, tickets, reqs>>

delete_subscription_by_id_admin_code(tok, subscription_id) ==
    IF get_current_admin_user(tok) # HTTP_200_OK THEN get_current_admin_user(tok)
    ELSE IF subscription_id \notin DOMAIN subscriptions THEN HTTP_404_NOT_FOUND
    ELSE HTTP_204_NO_CONTENT

delete_subscription_by_id_admin(tok, subscription_id) ==
    LET code == delete_subscription_by_id_admin_code(tok, subscription_id) IN
    /\ subscriptions' =
          IF code = HTTP_204_NO_CONTENT THEN Without(subscriptions, {subscription_id})
          ELSE subscriptions
    /\ resp' = [op |-> "delete_subscription_by_id_admin", code |-> code, tok |-> tok,
                subscription_id |-> subscription_id]
    /\ UNCHANGED <<fk_enforced, users, categories, events, participations, comments,
                   reviews, tickets, reqs>>

(***************************************************************************)
(* SpecSubscriptions: the subscription handlers over the fixture users.    *)
(* Tokens: 0 (no valid credential), 1 (admin), 2, 3 (active), 4 (inactive),*)
(* 5 (a user that does not exist).                                         *)
(***************************************************************************)
SubTokens == {0, 1, 2, 4}
AdminTokens == {1, 2}
SubUserIds == {1, 2, 5}

InitSubscriptions ==
    /\ fk_enforced \in BOOLEAN
    /\ users = InitUsers
    /\ categories = {}
    /\ events = NoTable
    /\ participations = NoTable
    /\ subscriptions = NoTable
    /\ comments = NoTable
    /\ reviews = NoTable
    /\ tickets = NoTable
    /\ reqs = NoTable
    /\ resp = NoResponse

\* a new row is inserted only while the table's keys stay within the bound
RoomFor(table, code, bound) == code = HTTP_201_CREATED => NextId(table) <= bound

NextSubscriptions ==
    \/ \E tok \in SubTokens, followee_id \in SubUserIds :
          /\ RoomFor(subscriptions, subscribe_to_user_code(tok, followee_id),
                     MaxSubscriptions)
          /\ subscribe_to_user(tok, followee_id)
    \/ \E tok \in SubTokens, followee_id \in SubUserIds :
          unsubscribe_from_user(tok, followee_id)
    \/ \E tok \in AdminTokens, follower_id \in SubUserIds, followee_id \in SubUserIds :
          /\ RoomFor(subscriptions,
                     create_subscription_by_admin_code(tok, follower_id, followee_id),
                     MaxSubscriptions)
          /\ create_subscription_by_admin(tok, follower_id, followee_id)
    \/ \E tok \in AdminTokens, subscription_id \in 1..MaxSubscriptions :
          delete_subscription_by_id_admin(tok, subscription_id)

SpecSubscriptions == InitSubscriptions /\ [][NextSubscriptions]_vars

(***************************************************************************)
(* src/app/routes/participations.py                                        *)
(*                                                                         *)
(* Both set-status handlers look the row up, then either change its status *)
(* or add a new row, then commit.  The lookup and the commit are separate  *)
(* awaits: ParticipationLookup and ParticipationCommit model them, the     *)
(* handlers below run them back to back, and the Begin / Commit actions of *)
(* SpecUpsertRace run them with other requests in between.                 *)
(***************************************************************************)
ParticipationRows(user_id, event_id) ==
    {i \in DOMAIN participations :
        /\ participations[i].user_id = user_id
        /\ participations[i].event_id = event_id}

\* select(Participation).where(...) ... scalars().first()
ParticipationLookup(user_id, event_id) ==
    LET rows == ParticipationRows(user_id, event_id) IN
    IF rows = {} THEN NoId ELSE CHOOSE i \in rows : \A j \in rows : i <= j

\* Participation.__table_args__ and the two foreign keys: the INSERT is rejected
ParticipationInsertViolates(user_id, event_id) ==
    \/ ParticipationRows(user_id, event_id) # {}          \* unique_user_event
    \/ FkUserViolated(user_id)
    \/ FkEventViolated(event_id)

\* the update path forgets to assign the new status
ParticipationCommit_KeepStatus(found, user_id, event_id, status, ok) ==
    IF found # NoId
    THEN IF found \notin DOMAIN participations
         THEN [code |-> HTTP_500_INTERNAL_SERVER_ERROR, table |-> participations]
         ELSE [code |-> ok, table |-> participations]
    ELSE IF ParticipationInsertViolates(user_id, event_id)
         THEN [code |-> HTTP_409_CONFLICT, table |-> participations]
         ELSE [code |-> ok,
               table |-> WithRow(participations,
                    [user_id |-> user_id, event_id |-> event_id, status |-> status])]

\* the IntegrityError of the commit is not caught apart: it ends in the 500 branch
ParticipationCommit_NoConflict(found, user_id, event_id, status, ok) ==
    IF found # NoId
    THEN IF found \notin DOMAIN participations
         THEN [code |-> HTTP_500_INTERNAL_SERVER_ERROR, table |-> participations]
         ELSE [code |-> ok,
               table |-> [participations EXCEPT ![found].status = status]]
    ELSE IF ParticipationInsertViolates(user_id, event_id)
         THEN [code |-> HTTP_500_INTERNAL_SERVER_ERROR, table |-> participations]
         ELSE [code |-> ok,
               table |-> WithRow(participations,
                    [user_id |-> user_id, event_id |-> event_id, status |-> status])]

\* db.commit() and db.refresh() of a set-status handler whose lookup gave found:
\* the status it answers with (ok when all went well) and the table it leaves.
\* The UPDATE (or the refresh) of a row that is gone raises, which the handler
\* answers 500 after rollback; a rejected INSERT raises IntegrityError: 409.
ParticipationCommit(found, user_id, event_id, status, ok) ==
    IF found # NoId
    THEN IF found \notin DOMAIN participations
         THEN [code |-> HTTP_500_INTERNAL_SERVER_ERROR, table |-> participations]
         ELSE [code |-> ok,
               table |-> [participations EXCEPT ![found].status = status]]
    ELSE IF ParticipationInsertViolates(user_id, event_id)
         THEN [code |-> HTTP_409_CONFLICT, table |-> participations]
         ELSE [code |-> ok,
               table |-> WithRow(participations,
                    [user_id |-> user_id, event_id |-> event_id, status |-> status])]

\* the handler's `action` string
ParticipationAction(found) == IF found # NoId THEN "updated" ELSE "created"

\* what set_my_participation_status answers before it reaches the lookup
set_my_participation_status_pre(tok, event_id) ==
    IF get_current_active_user(tok) # HTTP_200_OK THEN get_current_active_user(tok)
    ELSE IF event_id \notin DOMAIN events THEN HTTP_404_NOT_FOUND
    ELSE HTTP_200_OK

set_my_participation_status(tok, event_id, status) ==
    LET pre == set_my_participation_status_pre(tok, event_id)
        found == ParticipationLookup(tok, event_id)
        done == ParticipationCommit(found, tok, event_id, status, HTTP_200_OK)
    IN
    /\ participations' = IF pre = HTTP_200_OK THEN done.table ELSE participations
    /\ resp' = [op |-> "set_my_participation_status",
                code |-> IF pre = HTTP_200_OK THEN done.code ELSE pre,
                tok |-> tok, user_id |-> tok, event_id |-> event_id, status |-> status,
                action |-> IF pre = HTTP_200_OK THEN ParticipationAction(found) ELSE ""]
    /\ UNCHANGED <<fk_enforced, users, categories, events, subscriptions, comments,
                   reviews, tickets, reqs>>

admin_create_or_update_participation(tok, user_id, event_id, status) ==
    LET pre == get_current_admin_user(tok)
        found == ParticipationLookup(user_id, event_id)
        done == ParticipationCommit(found, user_id, event_id, status, HTTP_201_CREATED)
    IN
    /\ participations' = IF pre = HTTP_200_OK THEN done.table ELSE participations
    /\ resp' = [op |-> "admin_create_or_update_participation",
                code |-> IF pre = HTTP_200_OK THEN done.code ELSE pre,
                tok |-> tok, user_id |-> user_id, event_id |-> event_id, status |-> status,
                action |-> IF pre = HTTP_200_OK THEN ParticipationAction(found) ELSE ""]
    /\ UNCHANGED <<fk_enforced, users, categories, events, subscriptions, comments,
                   reviews, tickets, reqs>>

delete_participation_record_restricted_code(tok, participation_id) ==
    IF get_current_active_user(tok) # HTTP_200_OK THEN get_current_active_user(tok)
    ELSE IF participation_id \notin DOMAIN participations THEN HTTP_404_NOT_FOUND
    ELSE IF ~(participations[participation_id].user_id = tok \/ users[tok].role = "admin")
         THEN HTTP_403_FORBIDDEN
    ELSE HTTP_204_NO_CONTENT

delete_participation_record_restricted(tok, participation_id) ==
    LET code == delete_participation_record_restricted_code(tok, participation_id) IN
    /\ participations' =
          IF code = HTTP_204_NO_CONTENT THEN Without(participations, {participation_id})
          ELSE participations
    /\ resp' = [op |-> "delete_participation_record_restricted", code |-> code, tok |-> tok,
                participation_id |-> participation_id]
    /\ UNCHANGED <<fk_enforced, users, categories, events, subscriptions, comments,
                   reviews, tickets, reqs>>

(***************************************************************************)
(* The same two handlers, one await at a time.  A request that got past    *)
(* its dependencies and its lookup waits in reqs with what it read.        *)
(***************************************************************************)
FreeSlots == (1..MaxInFlight) \ DOMAIN reqs

BeginRequest(slot, op, pre, tok, user_id, event_id, status, ok) ==
    /\ slot \in FreeSlots
    /\ IF pre = HTTP_200_OK
       THEN /\ reqs' = (slot :> [op |-> op, tok |-> tok, user_id |-> user_id,
                                 event_id |-> event_id, status |-> status, ok |-> ok,
                                 found |-> ParticipationLookup(user_id, event_id)]) @@ reqs
            /\ resp' = NoResponse
       ELSE /\ reqs' = reqs
            /\ resp' = [op |-> op, code |-> pre, tok |-> tok, user_id |-> user_id,
                        event_id |-> event_id, status |-> status, action |-> ""]
    /\ UNCHANGED <<fk_enforced, users, categories, events, participations,
                   subscriptions, comments, reviews, tickets>>

set_my_participation_status_begin(slot, tok, event_id, status) ==
    BeginRequest(slot, "set_my_participation_status",
                 set_my_participation_status_pre(tok, event_id),
                 tok, tok, event_id, status, HTTP_200_OK)

admin_create_or_update_participation_begin(slot, tok, user_id, event_id, status) ==
    BeginRequest(slot, "admin_create_or_update_participation",
                 get_current_admin_user(tok),
                 tok, user_id, event_id, status, HTTP_201_CREATED)

set_status_commit(slot) ==
    /\ slot \in DOMAIN reqs
    /\ LET r == reqs[slot]
           done == ParticipationCommit(r.found, r.user_id, r.event_id, r.status, r.ok)
       IN
       /\ participations' = done.table
       /\ resp' = [op |-> r.op, code |-> done.code, tok |-> r.tok, user_id |-> r.user_id,
                   event_id |-> r.event_id, status |-> r.status,
                   action |-> ParticipationAction(r.found)]
    /\ reqs' = [i \in (DOMAIN reqs) \ {slot} |-> reqs[i]]
    /\ UNCHANGED <<fk_enforced, users, categories, events, subscriptions, comments, reviews, tickets>>

(***************************************************************************)
(* SpecParticipations: the handlers, each run to its end before the next.  *)
(* SpecUpsertRace: set-status requests interleaved at their awaits.        *)
(* Event 1 exists, event 9 does not; user 5 does not exist.                *)
(***************************************************************************)
InitEvents == (1 :> [author_id |-> 2, category_id |-> 1])

InitParticipations ==
    /\ fk_enforced \in BOOLEAN
    /\ users = InitUsers
    /\ categories = {1}
    /\ events = InitEvents
    /\ participations = NoTable
    /\ subscriptions = NoTable
    /\ comments = NoTable
    /\ reviews = NoTable
    /\ tickets = NoTable
    /\ reqs = NoTable
    /\ resp = NoResponse

\* a row is added only while the table's keys stay within the bound
RoomForRow(found, user_id, event_id) ==
    (found = NoId /\ ~ParticipationInsertViolates(user_id, event_id))
        => NextId(participations) <= MaxParticipations

NextParticipations ==
    \/ \E tok \in {0, 2, 3, 4}, event_id \in {1, 9}, status \in StatusVariation :
          /\ RoomForRow(ParticipationLookup(tok, event_id), tok, event_id)
          /\ set_my_participation_status(tok, event_id, status)
    \/ \E tok \in {1, 2}, user_id \in {2, 5}, event_id \in {1, 9},
          status \in StatusVariation :
          /\ RoomForRow(ParticipationLookup(user_id, event_id), user_id, event_id)
          /\ admin_create_or_update_participation(tok, user_id, event_id, status)
    \/ \E tok \in {1, 2, 3}, participation_id \in 1..MaxParticipations :
          delete_participation_record_restricted(tok, participation_id)

SpecParticipations == InitParticipations /\ [][NextParticipations]_vars

RaceStatuses == {"going", "interested"}

NextUpsertRace ==
    \/ \E slot \in 1..MaxInFlight, tok \in {0, 2}, event_id \in {1},
          status \in RaceStatuses :
          set_my_participation_status_begin(slot, tok, event_id, status)
    \/ \E slot \in 1..MaxInFlight, tok \in {1}, user_id \in {2}, event_id \in {1},
          status \in RaceStatuses :
          admin_create_or_update_participation_begin(slot, tok, user_id, event_id, status)
    \/ \E slot \in DOMAIN reqs :
          /\ RoomForRow(reqs[slot].found, reqs[slot].user_id, reqs[slot].event_id)
          /\ set_status_commit(slot)
    \/ \E tok \in {1, 2}, participation_id \in 1..MaxParticipations :
          delete_participation_record_restricted(tok, participation_id)

SpecUpsertRace == InitParticipations /\ [][NextUpsertRace]_vars

(***************************************************************************)
(* src/app/routes/comments.py                                              *)
(***************************************************************************)
CommentRow(event_id, author_id, parent_comment_id, depth) ==
    [event_id |-> event_id, author_id |-> author_id,
     parent_comment_id |-> parent_comment_id, depth |-> depth, reply_count |-> 0,
     text |-> "text"]

\* `if comment_data.parent_comment_id:` -- None and 0 are both falsy
HasParent(parent_comment_id) == parent_comment_id # NoId /\ parent_comment_id # 0

\* the depth test lets a depth-4 parent through
comment_parent_check_DepthOffByOne(event_id, parent_comment_id) ==
    IF event_id \notin DOMAIN events THEN HTTP_404_NOT_FOUND
    ELSE IF ~HasParent(parent_comment_id) THEN HTTP_200_OK
    ELSE IF parent_comment_id \notin DOMAIN comments THEN HTTP_404_NOT_FOUND
    ELSE IF comments[parent_comment_id].event_id # event_id THEN HTTP_400_BAD_REQUEST
    ELSE IF comments[parent_comment_id].depth > MAX_PARENT_DEPTH THEN HTTP_400_BAD_REQUEST
    ELSE HTTP_200_OK

\* the checks both creation handlers run on the event and on the parent
comment_parent_check(event_id, parent_comment_id) ==
    IF event_id \notin DOMAIN events THEN HTTP_404_NOT_FOUND
    ELSE IF ~HasParent(parent_comment_id) THEN HTTP_200_OK
    ELSE IF parent_comment_id \notin DOMAIN comments THEN HTTP_404_NOT_FOUND
    ELSE IF comments[parent_comment_id].event_id # event_id THEN HTTP_400_BAD_REQUEST
    ELSE IF comments[parent_comment_id].depth >= MAX_PARENT_DEPTH THEN HTTP_400_BAD_REQUEST
    ELSE HTTP_200_OK

\* the three foreign keys of Comment: the INSERT is rejected
CommentInsertViolates(author_id, event_id, parent_comment_id) ==
    \/ FkUserViolated(author_id)
    \/ FkEventViolated(event_id)
    \/ (fk_enforced /\ parent_comment_id # NoId
            /\ parent_comment_id \notin DOMAIN comments)

\* a parent of another event is let through
CreateComment_code_AnyEvent(pre, author_id, event_id, parent_comment_id) ==
    IF pre # HTTP_200_OK THEN pre
    ELSE IF /\ comment_parent_check(event_id, parent_comment_id) # HTTP_200_OK
            /\ ~(/\ event_id \in DOMAIN events
                 /\ parent_comment_id \in DOMAIN comments
                 /\ comments[parent_comment_id].depth < MAX_PARENT_DEPTH)
         THEN comment_parent_check(event_id, parent_comment_id)
    ELSE IF CommentInsertViolates(author_id, event_id, parent_comment_id)
         THEN HTTP_409_CONFLICT
    ELSE HTTP_201_CREATED

CreateComment_code(pre, author_id, event_id, parent_comment_id) ==
    IF pre # HTTP_200_OK THEN pre
    ELSE IF comment_parent_check(event_id, parent_comment_id) # HTTP_200_OK
         THEN comment_parent_check(event_id, parent_comment_id)
    ELSE IF CommentInsertViolates(author_id, event_id, parent_comment_id)
         THEN HTTP_409_CONFLICT
    ELSE HTTP_201_CREATED

\* depth = parent_comment_obj.depth + 1, or 0 without a parent
CommentDepth(parent_comment_id) ==
    IF HasParent(parent_comment_id) THEN comments[parent_comment_id].depth + 1 ELSE 0

\* db.add(db_comment); parent_comment_obj.reply_count += 1; db.commit()
CommentsWith(author_id, event_id, parent_comment_id) ==
    LET added == WithRow(comments, CommentRow(event_id, author_id, parent_comment_id,
                                              CommentDepth(parent_comment_id)))
    IN IF HasParent(parent_comment_id)
       THEN [added EXCEPT ![parent_comment_id].reply_count = @ + 1]
       ELSE added

\* the body the two creation handlers share
CreateComment(op, pre, tok, author_id, event_id, parent_comment_id) ==
    LET code == CreateComment_code(pre, author_id, event_id, parent_comment_id) IN
    /\ comments' = IF code = HTTP_201_CREATED
                   THEN CommentsWith(author_id, event_id, parent_comment_id)
                   ELSE comments
    /\ resp' = [op |-> op, code |-> code, tok |-> tok, author_id |-> author_id,
                event_id |-> event_id, parent_comment_id |-> parent_comment_id,
                id |-> IF code = HTTP_201_CREATED THEN NextId(comments) ELSE NoId]
    /\ UNCHANGED <<fk_enforced, users, categories, events, participations,
                   subscriptions, reviews, tickets, reqs>>

create_comment_or_reply(tok, event_id, parent_comment_id) ==
    CreateComment("create_comment_or_reply", get_current_active_user(tok),
                  tok, tok, event_id, parent_comment_id)

create_comment_or_reply_as_author_by_admin(tok, author_id, event_id, parent_comment_id) ==
    CreateComment("create_comment_or_reply_as_author_by_admin", get_current_admin_user(tok),
                  tok, author_id, event_id, parent_comment_id)

\* the delete cascade stops at the direct replies
CascadeReplies_DirectOnly(ids) ==
    ids \cup {d \in DOMAIN comments : comments[d].parent_comment_id \in ids}

\* Comment.replies, cascade="all, delete-orphan": the rows that go with ids
RECURSIVE CascadeReplies(_)
CascadeReplies(ids) ==
    LET more == ids \cup {d \in DOMAIN comments : comments[d].parent_comment_id \in ids}
    IN IF more = ids THEN ids ELSE CascadeReplies(more)

delete_own_or_admin_comment_code(tok, comment_id) ==
    IF get_current_active_user(tok) # HTTP_200_OK THEN get_current_active_user(tok)
    ELSE IF comment_id \notin DOMAIN comments THEN HTTP_404_NOT_FOUND
    ELSE IF ~(comments[comment_id].author_id = tok \/ users[tok].role = "admin")
         THEN HTTP_403_FORBIDDEN
    ELSE HTTP_204_NO_CONTENT

\* the parent's reply_count is left as it was
CommentsWithout_NoDecrement(comment_id) ==
    Without(comments, CascadeReplies({comment_id}))

\* db.delete(db_comment_to_delete); parent.reply_count = max(0, reply_count - 1)
CommentsWithout(comment_id) ==
    LET rest == Without(comments, CascadeReplies({comment_id}))
        parent == comments[comment_id].parent_comment_id
    IN IF HasParent(parent) /\ parent \in DOMAIN rest
       THEN [rest EXCEPT ![parent].reply_count = Max({0, @ - 1})]
       ELSE rest

delete_own_or_admin_comment(tok, comment_id) ==
    LET code == delete_own_or_admin_comment_code(tok, comment_id) IN
    /\ comments' = IF code = HTTP_204_NO_CONTENT THEN CommentsWithout(comment_id)
                   ELSE comments
    /\ resp' = [op |-> "delete_own_or_admin_comment", code |-> code, tok |-> tok,
                comment_id |-> comment_id,
                removed |-> IF code = HTTP_204_NO_CONTENT
                            THEN Cardinality(CascadeReplies({comment_id})) ELSE 0]
    /\ UNCHANGED <<fk_enforced, users, categories, events, participations,
                   subscriptions, reviews, tickets, reqs>>

(***************************************************************************)
(* src/app/routes/users.py: delete_user_endpoint.  db.delete(db_user)      *)
(* deletes, through the relationships of User with cascade="all,           *)
(* delete-orphan", the user's participations, subscriptions (both sides),  *)
(* comments (each with its replies), reviews and tickets.  User.events has *)
(* no cascade: the flush sets events.author_id to NULL, which NOT NULL     *)
(* rejects (IntegrityError, 409).                                          *)
(***************************************************************************)
RowsOf(table, field, id) == {i \in DOMAIN table : table[i][field] = id}

delete_user_endpoint_code(tok, user_id) ==
    IF get_current_admin_user(tok) # HTTP_200_OK THEN get_current_admin_user(tok)
    ELSE IF tok = user_id THEN HTTP_403_FORBIDDEN
    ELSE IF user_id \notin DOMAIN users THEN HTTP_404_NOT_FOUND
    ELSE IF RowsOf(events, "author_id", user_id) # {} THEN HTTP_409_CONFLICT
    ELSE HTTP_204_NO_CONTENT

delete_user_endpoint(tok, user_id) ==
    LET code == delete_user_endpoint_code(tok, user_id)
        ok == code = HTTP_204_NO_CONTENT
    IN
    /\ users' = IF ok THEN Without(users, {user_id}) ELSE users
    /\ participations' = IF ok THEN Without(participations,
                                            RowsOf(participations, "user_id", user_id))
                         ELSE participations
    /\ subscriptions' = IF ok THEN Without(subscriptions,
                                      RowsOf(subscriptions, "follower_id", user_id)
                                      \cup RowsOf(subscriptions, "followee_id", user_id))
                        ELSE subscriptions
    /\ comments' = IF ok THEN Without(comments,
                                 CascadeReplies(RowsOf(comments, "author_id", user_id)))
                   ELSE comments
    /\ reviews' = IF ok THEN Without(reviews, RowsOf(reviews, "author_id", user_id))
                  ELSE reviews
    /\ tickets' = IF ok THEN Without(tickets, RowsOf(tickets, "user_id", user_id))
                  ELSE tickets
    /\ resp' = [op |-> "delete_user_endpoint", code |-> code, tok |-> tok,
                user_id |-> user_id]
    /\ UNCHANGED <<fk_enforced, categories, events, reqs>>

(***************************************************************************)
(* src/app/routes/events.py: delete_event.  None of Event's relationships  *)
(* cascades: the flush sets event_id of the event's participations,        *)
(* comments, reviews and tickets to NULL, which NOT NULL rejects (409).    *)
(***************************************************************************)
EventReferenced(event_id) ==
    \/ RowsOf(participations, "event_id", event_id) # {}
    \/ RowsOf(comments, "event_id", event_id) # {}
    \/ RowsOf(reviews, "event_id", event_id) # {}
    \/ RowsOf(tickets, "event_id", event_id) # {}

delete_event_code(tok, event_id) ==
    IF get_current_active_user(tok) # HTTP_200_OK THEN get_current_active_user(tok)
    ELSE IF event_id \notin DOMAIN events THEN HTTP_404_NOT_FOUND
    ELSE IF events[event_id].author_id # tok /\ users[tok].role # "admin"
         THEN HTTP_403_FORBIDDEN
    ELSE IF EventReferenced(event_id) THEN HTTP_409_CONFLICT
    ELSE HTTP_204_NO_CONTENT

delete_event(tok, event_id) ==
    LET code == delete_event_code(tok, event_id) IN
    /\ events' = IF code = HTTP_204_NO_CONTENT THEN Without(events, {event_id}) ELSE events
    /\ resp' = [op |-> "delete_event", code |-> code, tok |-> tok, event_id |-> event_id]
    /\ UNCHANGED <<fk_enforced, users, categories, participations, subscriptions,
                   comments, reviews, tickets, reqs>>

(***************************************************************************)
(* SpecComments: comments and replies are written and deleted, users and   *)
(* events are deleted.  Event 1 is user 2's, event 2 the admin's.          *)
(* SpecThread: one thread of event 1 grows through both creation handlers. *)
(***************************************************************************)
CommentEvents == (1 :> [author_id |-> 2, category_id |-> 1])
                 @@ (2 :> [author_id |-> 1, category_id |-> 1])

InitComments ==
    /\ fk_enforced \in BOOLEAN
    /\ users = InitUsers
    /\ categories = {1}
    /\ events = CommentEvents
    /\ participations = NoTable
    /\ subscriptions = NoTable
    /\ comments = NoTable
    /\ reviews = NoTable
    /\ tickets = NoTable
    /\ reqs = NoTable
    /\ resp = NoResponse

ParentIds(bound) == {NoId, 0} \cup (1..bound)

NextComments ==
    \/ \E tok \in {2, 3}, event_id \in {1, 2}, parent \in ParentIds(MaxComments) \ {0} :
          /\ RoomFor(comments, CreateComment_code(get_current_active_user(tok),
                                                  tok, event_id, parent), MaxComments)
          /\ create_comment_or_reply(tok, event_id, parent)
    \/ \E tok \in {1}, author_id \in {3}, event_id \in {1},
          parent \in ParentIds(MaxComments) \ {0} :
          /\ RoomFor(comments, CreateComment_code(get_current_admin_user(tok),
                                                  author_id, event_id, parent), MaxComments)
          /\ create_comment_or_reply_as_author_by_admin(tok, author_id, event_id, parent)
    \/ \E tok \in {1, 3}, comment_id \in 1..MaxComments :
          delete_own_or_admin_comment(tok, comment_id)
    \/ \E tok \in {1}, user_id \in {2, 3} : delete_user_endpoint(tok, user_id)
    \/ \E tok \in {2}, event_id \in {1, 2} : delete_event(tok, event_id)

SpecComments == InitComments /\ [][NextComments]_vars

NextThread ==
    \/ \E tok \in {3, 4}, parent \in ParentIds(MaxThread) \ {0} :
          /\ RoomFor(comments, CreateComment_code(get_current_active_user(tok),
                                                  tok, 1, parent), MaxThread)
          /\ create_comment_or_reply(tok, 1, parent)
    \/ \E tok \in {1}, parent \in ParentIds(MaxThread) \ {0} :
          /\ RoomFor(comments, CreateComment_code(get_current_admin_user(tok),
                                                  3, 1, parent), MaxThread)
          /\ create_comment_or_reply_as_author_by_admin(tok, 3, 1, parent)

SpecThread == InitComments /\ [][NextThread]_vars

(***************************************************************************)
(* src/app/routes/users.py: update_user_endpoint, and update_existing_user *)
(* of src/app/auth/user_crud.py.  A payload (UserUpdateAdminSchema) gives  *)
(* each of role, is_active and email a value, an explicit null (None) or   *)
(* nothing (Unset); the booleans of the payload are written "True" and     *)
(* "False".                                                                *)
(***************************************************************************)
Bool(v) == v = "True"

\* `user_update_data.x is not None`: the field carries a value
Given(v) == v # Unset /\ v # None

\* get_user_by_email: another row than user_id holds the address
EmailTaken(email, user_id) ==
    \E i \in DOMAIN users : users[i].email = email /\ i # user_id

\* setattr for every field of model_dump(exclude_unset=True)
UpdatedUserRow(row, payload) ==
    [row EXCEPT !.role = IF payload.role = Unset THEN @ ELSE payload.role,
                !.is_active = IF Given(payload.is_active) THEN Bool(payload.is_active) ELSE @,
                !.email = IF payload.email = Unset THEN @ ELSE payload.email]

\* NOT NULL of users.role, users.is_active, users.email; UNIQUE of users.email
UserUpdateViolates(user_id, payload) ==
    \/ payload.role = None
    \/ payload.is_active = None
    \/ payload.email = None
    \/ (Given(payload.email) /\ EmailTaken(payload.email, user_id))

\* the field-level tests on role and is_active are missing
update_user_endpoint_code_NoFieldTest(tok, user_id, payload) ==
    IF get_current_active_user(tok) # HTTP_200_OK THEN get_current_active_user(tok)
    ELSE IF tok # user_id /\ users[tok].role # "admin" THEN HTTP_403_FORBIDDEN
    ELSE IF Given(payload.email) /\ EmailTaken(payload.email, user_id)
         THEN HTTP_409_CONFLICT
    ELSE IF user_id \notin DOMAIN users THEN HTTP_404_NOT_FOUND
    ELSE IF UserUpdateViolates(user_id, payload) THEN HTTP_409_CONFLICT
    ELSE HTTP_200_OK

update_user_endpoint_code(tok, user_id, payload) ==
    IF get_current_active_user(tok) # HTTP_200_OK THEN get_current_active_user(tok)
    ELSE IF tok # user_id /\ users[tok].role # "admin" THEN HTTP_403_FORBIDDEN
    ELSE IF /\ users[tok].role # "admin"
            /\ Given(payload.role)
            /\ payload.role # users[tok].role
         THEN HTTP_403_FORBIDDEN
    ELSE IF /\ users[tok].role # "admin"
            /\ Given(payload.is_active)
            /\ Bool(payload.is_active) # users[tok].is_active
         THEN HTTP_403_FORBIDDEN
    ELSE IF Given(payload.email) /\ EmailTaken(payload.email, user_id)
         THEN HTTP_409_CONFLICT
    ELSE IF user_id \notin DOMAIN users THEN HTTP_404_NOT_FOUND
    ELSE IF UserUpdateViolates(user_id, payload) THEN HTTP_409_CONFLICT
    ELSE HTTP_200_OK

update_user_endpoint(tok, user_id, payload) ==
    LET code == update_user_endpoint_code(tok, user_id, payload) IN
    /\ users' = IF code = HTTP_200_OK
                THEN [users EXCEPT ![user_id] = UpdatedUserRow(@, payload)]
                ELSE users
    /\ resp' = [op |-> "update_user_endpoint", code |-> code, tok |-> tok,
                user_id |-> user_id, payload |-> payload]
    /\ UNCHANGED <<fk_enforced, categories, events, participations, subscriptions,
                   comments, reviews, tickets, reqs>>

(***************************************************************************)
(* SpecUsers: the admin, the organizer and user 3 ask for updates of user   *)
(* 3 and of user 9, who does not exist; the admin deletes user 4.          *)
(***************************************************************************)
UserPayloads ==
    [role : {Unset, None, "user", "admin"},
     is_active : {Unset, None, "True", "False"},
     email : {Unset, "e1", "e9"}]

InitUsersSpec ==
    /\ fk_enforced \in BOOLEAN
    /\ users = InitUsers
    /\ categories = {1}
    /\ events = InitEvents
    /\ participations = NoTable
    /\ subscriptions = NoTable
    /\ comments = NoTable
    /\ reviews = NoTable
    /\ tickets = NoTable
    /\ reqs = NoTable
    /\ resp = NoResponse

NextUsers ==
    \/ \E tok \in {1, 2, 3}, user_id \in {3, 9}, payload \in UserPayloads :
          update_user_endpoint(tok, user_id, payload)
    \/ \E tok \in {1, 3}, user_id \in {4} : delete_user_endpoint(tok, user_id)

SpecUsers == InitUsersSpec /\ [][NextUsers]_vars

(***************************************************************************)
(* src/app/routes/events.py: create_event, update_event.                   *)
(* src/app/routes/categories.py: delete_category_admin.                    *)
(***************************************************************************)
\* EventCreateSchema.author_id is required and never read: the author is the
\* requester
create_event_code(tok, category_id) ==
    IF get_current_organizer_user(tok) # HTTP_200_OK THEN get_current_organizer_user(tok)
    ELSE IF FkCategoryViolated(category_id) THEN HTTP_409_CONFLICT
    ELSE HTTP_201_CREATED

\* the author of the new row is taken from the payload
create_event_PayloadAuthor(tok, author_id, category_id) ==
    LET code == create_event_code(tok, category_id) IN
    /\ events' = IF code = HTTP_201_CREATED
                 THEN WithRow(events, [author_id |-> author_id, category_id |-> category_id])
                 ELSE events
    /\ resp' = [op |-> "create_event", code |-> code, tok |-> tok,
                author_id |-> author_id, category_id |-> category_id,
                id |-> IF code = HTTP_201_CREATED THEN NextId(events) ELSE NoId]
    /\ UNCHANGED <<fk_enforced, users, categories, participations, subscriptions,
                   comments, reviews, tickets, reqs>>

create_event(tok, author_id, category_id) ==
    LET code == create_event_code(tok, category_id) IN
    /\ events' = IF code = HTTP_201_CREATED
                 THEN WithRow(events, [author_id |-> tok, category_id |-> category_id])
                 ELSE events
    /\ resp' = [op |-> "create_event", code |-> code, tok |-> tok,
                author_id |-> author_id, category_id |-> category_id,
                id |-> IF code = HTTP_201_CREATED THEN NextId(events) ELSE NoId]
    /\ UNCHANGED <<fk_enforced, users, categories, participations, subscriptions,
                   comments, reviews, tickets, reqs>>

\* model_dump(exclude_unset=True) of an EventUpdateSchema is empty
NoEventFields(payload) == payload.category_id = UnsetId /\ payload.title = Unset

update_event_code(tok, event_id, payload) ==
    IF get_current_active_user(tok) # HTTP_200_OK THEN get_current_active_user(tok)
    ELSE IF event_id \notin DOMAIN events THEN HTTP_404_NOT_FOUND
    ELSE IF events[event_id].author_id # tok /\ users[tok].role # "admin"
         THEN HTTP_403_FORBIDDEN
    ELSE IF NoEventFields(payload) THEN HTTP_400_BAD_REQUEST
    ELSE IF payload.category_id = NoId THEN HTTP_409_CONFLICT      \* NOT NULL
    ELSE IF payload.category_id # UnsetId /\ FkCategoryViolated(payload.category_id)
         THEN HTTP_409_CONFLICT
    ELSE HTTP_200_OK

update_event(tok, event_id, payload) ==
    LET code == update_event_code(tok, event_id, payload) IN
    /\ events' = IF code = HTTP_200_OK /\ payload.category_id # UnsetId
                 THEN [events EXCEPT ![event_id].category_id = payload.category_id]
                 ELSE events
    /\ resp' = [op |-> "update_event", code |-> code, tok |-> tok,
                event_id |-> event_id, payload |-> payload]
    /\ UNCHANGED <<fk_enforced, users, categories, participations, subscriptions,
                   comments, reviews, tickets, reqs>>

\* select(func.count(Event.id)).where(Event.category_id == category_id)
associated_events_count(category_id) ==
    Cardinality(RowsOf(events, "category_id", category_id))

\* the count of the category's events is not looked at
delete_category_admin_code_NoCount(tok, category_id) ==
    IF get_current_admin_user(tok) # HTTP_200_OK THEN get_current_admin_user(tok)
    ELSE IF category_id \notin categories THEN HTTP_404_NOT_FOUND
    ELSE HTTP_204_NO_CONTENT

delete_category_admin_code(tok, category_id) ==
    IF get_current_admin_user(tok) # HTTP_200_OK THEN get_current_admin_user(tok)
    ELSE IF category_id \notin categories THEN HTTP_404_NOT_FOUND
    ELSE IF associated_events_count(category_id) > 0 THEN HTTP_409_CONFLICT
    ELSE HTTP_204_NO_CONTENT

delete_category_admin(tok, category_id) ==
    LET code == delete_category_admin_code(tok, category_id) IN
    /\ categories' = IF code = HTTP_204_NO_CONTENT THEN categories \ {category_id}
                     ELSE categories
    /\ resp' = [op |-> "delete_category_admin", code |-> code, tok |-> tok,
                category_id |-> category_id,
                count |-> IF code = HTTP_409_CONFLICT
                          THEN associated_events_count(category_id) ELSE 0]
    /\ UNCHANGED <<fk_enforced, users, events, participations, subscriptions,
                   comments, reviews, tickets, reqs>>

(***************************************************************************)
(* SpecEvents: events are created, moved to another category and deleted,  *)
(* categories are deleted, and the admin changes the role of user 3.       *)
(* Categories 1 and 2 exist, category 9 does not; event 1 is in category 1.*)
(***************************************************************************)
InitEventsSpec ==
    /\ fk_enforced \in BOOLEAN
    /\ users = InitUsers
    /\ categories = {1, 2}
    /\ events = InitEvents
    /\ participations = NoTable
    /\ subscriptions = NoTable
    /\ comments = NoTable
    /\ reviews = NoTable
    /\ tickets = NoTable
    /\ reqs = NoTable
    /\ resp = NoResponse

EventPayloads == [category_id : {UnsetId, NoId, 1, 2}, title : {Unset}]

RolePayloads == [role : {"user", "organizer"}, is_active : {Unset}, email : {Unset}]

NextEvents ==
    \/ \E tok \in {2, 3, 4}, author_id \in {1, 2}, category_id \in {2, 9} :
          /\ RoomFor(events, create_event_code(tok, category_id), MaxEvents)
          /\ create_event(tok, author_id, category_id)
    \/ \E tok \in {2, 3}, event_id \in 1..MaxEvents, payload \in EventPayloads :
          update_event(tok, event_id, payload)
    \/ \E tok \in {1, 3}, event_id \in 1..MaxEvents : delete_event(tok, event_id)
    \/ \E tok \in {1, 2}, category_id \in {1, 2, 9} :
          delete_category_admin(tok, category_id)
    \/ \E payload \in RolePayloads : update_user_endpoint(1, 3, payload)

SpecEvents == InitEventsSpec /\ [][NextEvents]_vars

(***************************************************************************)
(* src/app/routes/reviews.py.  The reviews table (src/app/models/review.py)*)
(* has two foreign keys and no unique constraint.                          *)
(***************************************************************************)
ReviewRows(author_id, event_id) ==
    {i \in DOMAIN reviews :
        reviews[i].author_id = author_id /\ reviews[i].event_id = event_id}

ReviewInsertViolates(author_id, event_id) ==
    FkUserViolated(author_id) \/ FkEventViolated(event_id)

create_review_code(tok, event_id) ==
    IF get_current_active_user(tok) # HTTP_200_OK THEN get_current_active_user(tok)
    ELSE IF event_id \notin DOMAIN events THEN HTTP_404_NOT_FOUND
    ELSE IF ReviewRows(tok, event_id) # {} THEN HTTP_409_CONFLICT
    ELSE IF ReviewInsertViolates(tok, event_id) THEN HTTP_409_CONFLICT
    ELSE HTTP_201_CREATED

create_review_as_author_by_admin_code(tok, author_id, event_id) ==
    IF get_current_admin_user(tok) # HTTP_200_OK THEN get_current_admin_user(tok)
    ELSE IF ReviewInsertViolates(author_id, event_id) THEN HTTP_409_CONFLICT
    ELSE HTTP_201_CREATED

\* the body the two creation handlers share from db.add on
CreateReview(op, code, tok, author_id, event_id, rating) ==
    /\ reviews' = IF code = HTTP_201_CREATED
                  THEN WithRow(reviews, [event_id |-> event_id, author_id |-> author_id,
                                         rating |-> rating])
                  ELSE reviews
    /\ resp' = [op |-> op, code |-> code, tok |-> tok, author_id |-> author_id,
                event_id |-> event_id, rating |-> rating,
                id |-> IF code = HTTP_201_CREATED THEN NextId(reviews) ELSE NoId]
    /\ UNCHANGED <<fk_enforced, users, categories, events, participations,
                   subscriptions, comments, tickets, reqs>>

create_review(tok, event_id, rating) ==
    CreateReview("create_review", create_review_code(tok, event_id),
                 tok, tok, event_id, rating)

create_review_as_author_by_admin(tok, author_id, event_id, rating) ==
    CreateReview("create_review_as_author_by_admin",
                 create_review_as_author_by_admin_code(tok, author_id, event_id),
                 tok, author_id, event_id, rating)

\* model_dump(exclude_unset=True) of a ReviewUpdateSchema is empty
NoReviewFields(payload) == payload.rating = UnsetId /\ payload.comment = Unset

update_own_review_code(tok, review_id, payload) ==
    IF get_current_active_user(tok) # HTTP_200_OK THEN get_current_active_user(tok)
    ELSE IF review_id \notin DOMAIN reviews THEN HTTP_404_NOT_FOUND
    ELSE IF reviews[review_id].author_id # tok THEN HTTP_403_FORBIDDEN
    ELSE IF NoReviewFields(payload) THEN HTTP_400_BAD_REQUEST
    ELSE HTTP_200_OK

\* `if value is not None: setattr(db_review, key, value)`
update_own_review(tok, review_id, payload) ==
    LET code == update_own_review_code(tok, review_id, payload) IN
    /\ reviews' = IF code = HTTP_200_OK /\ payload.rating \notin {UnsetId, NoId}
                  THEN [reviews EXCEPT ![review_id].rating = payload.rating]
                  ELSE reviews
    /\ resp' = [op |-> "update_own_review", code |-> code, tok |-> tok,
                review_id |-> review_id, payload |-> payload]
    /\ UNCHANGED <<fk_enforced, users, categories, events, participations,
                   subscriptions, comments, tickets, reqs>>

\* the admin is not let through
delete_own_or_admin_review_code_AuthorOnly(tok, review_id) ==
    IF get_current_active_user(tok) # HTTP_200_OK THEN get_current_active_user(tok)
    ELSE IF review_id \notin DOMAIN reviews THEN HTTP_404_NOT_FOUND
    ELSE IF reviews[review_id].author_id # tok THEN HTTP_403_FORBIDDEN
    ELSE HTTP_204_NO_CONTENT

delete_own_or_admin_review_code(tok, review_id) ==
    IF get_current_active_user(tok) # HTTP_200_OK THEN get_current_active_user(tok)
    ELSE IF review_id \notin DOMAIN reviews THEN HTTP_404_NOT_FOUND
    ELSE IF ~(reviews[review_id].author_id = tok \/ users[tok].role = "admin")
         THEN HTTP_403_FORBIDDEN
    ELSE HTTP_204_NO_CONTENT

delete_own_or_admin_review(tok, review_id) ==
    LET code == delete_own_or_admin_review_code(tok, review_id) IN
    /\ reviews' = IF code = HTTP_204_NO_CONTENT THEN Without(reviews, {review_id})
                  ELSE reviews
    /\ resp' = [op |-> "delete_own_or_admin_review", code |-> code, tok |-> tok,
                review_id |-> review_id]
    /\ UNCHANGED <<fk_enforced, users, categories, events, participations,
                   subscriptions, comments, tickets, reqs>>

(***************************************************************************)
(* SpecReviews: users 2 and 3 review event 1, the admin writes reviews in  *)
(* the name of user 3, and reviews are updated and deleted.  Event 9 and   *)
(* user 5 do not exist.                                                    *)
(***************************************************************************)
ReviewPayloads == [rating : {UnsetId, NoId, 5}, comment : {Unset, "text"}]

NextReviews ==
    \/ \E tok \in {2, 3, 4}, event_id \in {1, 9} :
          /\ RoomFor(reviews, create_review_code(tok, event_id), MaxReviews)
          /\ create_review(tok, event_id, 4)
    \/ \E tok \in {1, 3}, author_id \in {3, 5}, event_id \in {1} :
          /\ RoomFor(reviews, create_review_as_author_by_admin_code(tok, author_id, event_id),
                     MaxReviews)
          /\ create_review_as_author_by_admin(tok, author_id, event_id, 4)
    \/ \E tok \in {1, 3}, review_id \in 1..MaxReviews, payload \in ReviewPayloads :
          update_own_review(tok, review_id, payload)
    \/ \E tok \in {1, 2, 3}, review_id \in 1..MaxReviews :
          delete_own_or_admin_review(tok, review_id)

SpecReviews == InitParticipations /\ [][NextReviews]_vars

(***************************************************************************)
(* subscribe_to_user, one await at a time: the request runs its tests      *)
(* (self, followee, existing row), then waits in reqs, then commits its    *)
(* INSERT, which the store checks against the table as it is by then.      *)
(***************************************************************************)
\* the handler up to db.add
subscribe_to_user_pre(tok, followee_id) ==
    IF get_current_active_user(tok) # HTTP_200_OK THEN get_current_active_user(tok)
    ELSE IF tok = followee_id THEN HTTP_400_BAD_REQUEST
    ELSE IF followee_id \notin DOMAIN users THEN HTTP_404_NOT_FOUND
    ELSE IF SubscriptionExists(tok, followee_id) THEN HTTP_409_CONFLICT
    ELSE HTTP_200_OK

subscribe_to_user_begin(slot, tok, followee_id) ==
    LET pre == subscribe_to_user_pre(tok, followee_id) IN
    /\ slot \in FreeSlots
    /\ IF pre = HTTP_200_OK
       THEN /\ reqs' = (slot :> [op |-> "subscribe_to_user", tok |-> tok,
                                 follower_id |-> tok, followee_id |-> followee_id]) @@ reqs
            /\ resp' = NoResponse
       ELSE /\ reqs' = reqs
            /\ resp' = [op |-> "subscribe_to_user", code |-> pre, tok |-> tok,
                        follower_id |-> tok, followee_id |-> followee_id,
                        committing |-> FALSE]
    /\ UNCHANGED <<fk_enforced, users, categories, events, participations,
                   subscriptions, comments, reviews, tickets>>

\* the store lets a second row of the pair in
subscribe_to_user_commit_code_NoUnique(slot) ==
    IF \/ FkUserViolated(reqs[slot].follower_id)
       \/ FkUserViolated(reqs[slot].followee_id)
    THEN HTTP_409_CONFLICT
    ELSE HTTP_201_CREATED

\* await db.commit(): IntegrityError -> rollback, 409
subscribe_to_user_commit_code(slot) ==
    IF SubscriptionInsertViolates(reqs[slot].follower_id, reqs[slot].followee_id)
    THEN HTTP_409_CONFLICT
    ELSE HTTP_201_CREATED

subscribe_to_user_commit(slot) ==
    /\ slot \in DOMAIN reqs
    /\ LET r == reqs[slot]
           code == subscribe_to_user_commit_code(slot)
       IN
       /\ subscriptions' =
             IF code = HTTP_201_CREATED
             THEN WithRow(subscriptions,
                          [follower_id |-> r.follower_id, followee_id |-> r.followee_id])
             ELSE subscriptions
       /\ resp' = [op |-> r.op, code |-> code, tok |-> r.tok,
                   follower_id |-> r.follower_id, followee_id |-> r.followee_id,
                   committing |-> TRUE]
    /\ reqs' = [i \in (DOMAIN reqs) \ {slot} |-> reqs[i]]
    /\ UNCHANGED <<fk_enforced, users, categories, events, participations, comments,
                   reviews, tickets>>

(***************************************************************************)
(* SpecSubscribeRace: subscribe requests interleaved at their awaits, with *)
(* the admin's creation and the unsubscribe handler in between.            *)
(***************************************************************************)
NextSubscribeRace ==
    \/ \E slot \in 1..MaxInFlight, tok \in {0, 2, 3}, followee_id \in {1, 2, 5} :
          subscribe_to_user_begin(slot, tok, followee_id)
    \/ \E slot \in DOMAIN reqs :
          /\ RoomFor(subscriptions, subscribe_to_user_commit_code(slot), MaxSubscriptions)
          /\ subscribe_to_user_commit(slot)
    \/ \E tok \in {1}, follower_id \in {2, 3}, followee_id \in {1} :
          /\ RoomFor(subscriptions,
                     create_subscription_by_admin_code(tok, follower_id, followee_id),
                     MaxSubscriptions)
          /\ create_subscription_by_admin(tok, follower_id, followee_id)
    \/ \E tok \in {2, 3}, followee_id \in {1} :
          unsubscribe_from_user(tok, followee_id)

SpecSubscribeRace == InitSubscriptions /\ [][NextSubscribeRace]_vars

(***************************************************************************)
(* src/app/routes/tickets.py                                               *)
(*                                                                         *)
(* A price is an integer; NoId is a NULL price, UnsetId a price the        *)
(* payload does not carry.                                                 *)
(***************************************************************************)
TicketRows(user_id, event_id) ==
    {i \in DOMAIN tickets :
        /\ tickets[i].user_id = user_id
        /\ tickets[i].event_id = event_id}

\* the two foreign keys alone: the store lets a second ticket of the pair in
TicketInsertViolates_NoUnique(user_id, event_id) ==
    \/ FkUserViolated(user_id)
    \/ FkEventViolated(event_id)

\* Ticket.__table_args__ and the two foreign keys: the INSERT is rejected
TicketInsertViolates(user_id, event_id) ==
    \/ TicketRows(user_id, event_id) # {}                 \* uq_user_event_ticket
    \/ FkUserViolated(user_id)
    \/ FkEventViolated(event_id)

\* getattr(event, 'ticket_price', Decimal("10.00"))
DefaultTicketPrice == 10

purchase_ticket_code(tok, event_id) ==
    IF get_current_active_user(tok) # HTTP_200_OK THEN get_current_active_user(tok)
    ELSE IF event_id \notin DOMAIN events THEN HTTP_404_NOT_FOUND
    ELSE IF TicketInsertViolates(tok, event_id) THEN HTTP_409_CONFLICT
    ELSE HTTP_201_CREATED

create_ticket_by_admin_code(tok, user_id, event_id) ==
    IF get_current_admin_user(tok) # HTTP_200_OK THEN get_current_admin_user(tok)
    ELSE IF user_id \notin DOMAIN users THEN HTTP_400_BAD_REQUEST
    ELSE IF event_id \notin DOMAIN events THEN HTTP_400_BAD_REQUEST
    ELSE IF TicketInsertViolates(user_id, event_id) THEN HTTP_409_CONFLICT
    ELSE HTTP_201_CREATED

\* db.add(db_ticket); commit
CreateTicket(op, code, tok, user_id, event_id, price) ==
    /\ tickets' =
          IF code = HTTP_201_CREATED
          THEN WithRow(tickets, [user_id |-> user_id, event_id |-> event_id,
                                 price |-> price])
          ELSE tickets
    /\ resp' = [op |-> op, code |-> code, tok |-> tok, user_id |-> user_id,
                event_id |-> event_id]
    /\ UNCHANGED <<fk_enforced, users, categories, events, participations,
                   subscriptions, comments, reviews, reqs>>

purchase_ticket(tok, event_id) ==
    CreateTicket("purchase_ticket", purchase_ticket_code(tok, event_id),
                 tok, tok, event_id, DefaultTicketPrice)

create_ticket_by_admin(tok, user_id, event_id, price) ==
    CreateTicket("create_ticket_by_admin",
                 create_ticket_by_admin_code(tok, user_id, event_id),
                 tok, user_id, event_id, price)

\* any organizer passes, not only the author of the ticket's event
TicketAccess_AnyOrganizer(tok, ticket_id) ==
    \/ tickets[ticket_id].user_id = tok
    \/ users[tok].role \in {"admin", "organizer"}

\* is_owner or is_admin or is_event_organizer
TicketAccess(tok, ticket_id) ==
    \/ tickets[ticket_id].user_id = tok
    \/ users[tok].role = "admin"
    \/ /\ tickets[ticket_id].event_id \in DOMAIN events
       /\ events[tickets[ticket_id].event_id].author_id = tok

\* TicketResponseSchema.price is a Decimal: a ticket with a NULL price fails
\* the validation of the response, after the handler has returned
get_ticket_by_id_restricted_code(tok, ticket_id) ==
    IF get_current_active_user(tok) # HTTP_200_OK THEN get_current_active_user(tok)
    ELSE IF ticket_id \notin DOMAIN tickets THEN HTTP_404_NOT_FOUND
    ELSE IF ~TicketAccess(tok, ticket_id) THEN HTTP_403_FORBIDDEN
    ELSE IF tickets[ticket_id].price = NoId THEN HTTP_500_INTERNAL_SERVER_ERROR
    ELSE HTTP_200_OK

get_ticket_by_id_restricted(tok, ticket_id) ==
    /\ resp' = [op |-> "get_ticket_by_id_restricted",
                code |-> get_ticket_by_id_restricted_code(tok, ticket_id),
                tok |-> tok, ticket_id |-> ticket_id]
    /\ UNCHANGED <<fk_enforced, users, categories, events, participations,
                   subscriptions, comments, reviews, tickets, reqs>>

\* everything up to db_ticket.price = updated_data["price"]
update_ticket_price_by_admin_pre(tok, ticket_id, price) ==
    IF get_current_admin_user(tok) # HTTP_200_OK THEN get_current_admin_user(tok)
    ELSE IF ticket_id \notin DOMAIN tickets THEN HTTP_404_NOT_FOUND
    ELSE IF price = UnsetId THEN HTTP_400_BAD_REQUEST
    ELSE HTTP_200_OK

\* the price column is nullable: the commit of a null price succeeds, and the
\* response (TicketResponseSchema.price: Decimal) then fails its validation
update_ticket_price_by_admin_code(tok, ticket_id, price) ==
    IF update_ticket_price_by_admin_pre(tok, ticket_id, price) # HTTP_200_OK
    THEN update_ticket_price_by_admin_pre(tok, ticket_id, price)
    ELSE IF price = NoId THEN HTTP_500_INTERNAL_SERVER_ERROR
    ELSE HTTP_200_OK

update_ticket_price_by_admin(tok, ticket_id, price) ==
    /\ tickets' =
          IF update_ticket_price_by_admin_pre(tok, ticket_id, price) = HTTP_200_OK
          THEN [tickets EXCEPT ![ticket_id].price = price]
          ELSE tickets
    /\ resp' = [op |-> "update_ticket_price_by_admin",
                code |-> update_ticket_price_by_admin_code(tok, ticket_id, price),
                tok |-> tok, ticket_id |-> ticket_id, price |-> price]
    /\ UNCHANGED <<fk_enforced, users, categories, events, participations,
                   subscriptions, comments, reviews, reqs>>

delete_ticket_restricted_code(tok, ticket_id) ==
    IF get_current_active_user(tok) # HTTP_200_OK THEN get_current_active_user(tok)
    ELSE IF ticket_id \notin DOMAIN tickets THEN HTTP_404_NOT_FOUND
    ELSE IF ~TicketAccess(tok, ticket_id) THEN HTTP_403_FORBIDDEN
    ELSE HTTP_204_NO_CONTENT

delete_ticket_restricted(tok, ticket_id) ==
    LET code == delete_ticket_restricted_code(tok, ticket_id) IN
    /\ tickets' =
          IF code = HTTP_204_NO_CONTENT THEN Without(tickets, {ticket_id}) ELSE tickets
    /\ resp' = [op |-> "delete_ticket_restricted", code |-> code, tok |-> tok,
                ticket_id |-> ticket_id]
    /\ UNCHANGED <<fk_enforced, users, categories, events, participations,
                   subscriptions, comments, reviews, reqs>>

(***************************************************************************)
(* SpecTickets: the ticket handlers.  Event 1 is organizer 2's, event 2 is *)
(* user 3's, event 9 and user 5 do not exist.                              *)
(***************************************************************************)
InitTickets ==
    /\ fk_enforced \in BOOLEAN
    /\ users = InitUsers
    /\ categories = {1}
    /\ events = InitEvents @@ (2 :> [author_id |-> 3, category_id |-> 1])
    /\ participations = NoTable
    /\ subscriptions = NoTable
    /\ comments = NoTable
    /\ reviews = NoTable
    /\ tickets = NoTable
    /\ reqs = NoTable
    /\ resp = NoResponse

TicketPrices == {UnsetId, NoId, 5}

NextTickets ==
    \/ \E tok \in {0, 2, 3, 4}, event_id \in {1, 2, 9} :
          /\ RoomFor(tickets, purchase_ticket_code(tok, event_id), MaxTickets)
          /\ purchase_ticket(tok, event_id)
    \/ \E tok \in {1, 3}, user_id \in {1, 3, 5}, event_id \in {1, 9} :
          /\ RoomFor(tickets, create_ticket_by_admin_code(tok, user_id, event_id),
                     MaxTickets)
          /\ create_ticket_by_admin(tok, user_id, event_id, 5)
    \/ \E tok \in {1, 2, 3, 4}, ticket_id \in 1..MaxTickets :
          get_ticket_by_id_restricted(tok, ticket_id)
    \/ \E tok \in {1, 2, 4}, ticket_id \in 1..MaxTickets, price \in TicketPrices :
          update_ticket_price_by_admin(tok, ticket_id, price)
    \/ \E tok \in {1, 2, 3, 4}, ticket_id \in 1..MaxTickets :
          delete_ticket_restricted(tok, ticket_id)

SpecTickets == InitTickets /\ [][NextTickets]_vars

(***************************************************************************)
(* src/app/routes/auth_router.py: register_user, one await at a time.  The *)
(* handler looks the e-mail up (400 if taken), then register_new_user adds *)
(* the row and commits.  Its only handler of a failed commit is            *)
(* `except Exception`: rollback, 500.  The access token of the new user    *)
(* carries its id as `sub` and nothing else.                               *)
(***************************************************************************)
register_user_begin(slot, email) ==
    /\ slot \in FreeSlots
    /\ IF EmailTaken(email, NoId)
       THEN /\ reqs' = reqs
            /\ resp' = [op |-> "register_user", code |-> HTTP_400_BAD_REQUEST,
                        tok |-> NoId, email |-> email, committing |-> FALSE]
       ELSE /\ reqs' = (slot :> [op |-> "register_user", email |-> email]) @@ reqs
            /\ resp' = NoResponse
    /\ UNCHANGED <<fk_enforced, users, categories, events, participations,
                   subscriptions, comments, reviews, tickets>>

\* users.email is unique: IntegrityError -> except Exception -> 500
register_user_commit_code(slot) ==
    IF EmailTaken(reqs[slot].email, NoId) THEN HTTP_500_INTERNAL_SERVER_ERROR
    ELSE HTTP_201_CREATED

register_user_commit(slot) ==
    /\ slot \in DOMAIN reqs
    /\ LET r == reqs[slot]
           code == register_user_commit_code(slot)
       IN
       /\ users' = IF code = HTTP_201_CREATED
                   THEN WithRow(users, UserRow("user", TRUE, r.email))
                   ELSE users
       /\ resp' = [op |-> r.op, code |-> code, tok |-> NoId, email |-> r.email,
                   committing |-> TRUE]
    /\ reqs' = [i \in (DOMAIN reqs) \ {slot} |-> reqs[i]]
    /\ UNCHANGED <<fk_enforced, categories, events, participations, subscriptions,
                   comments, reviews, tickets>>

(***************************************************************************)
(* src/app/routes/users.py: create_user_by_admin_endpoint.  Its admin       *)
(* dependency is commented out: the handler has no dependency but the      *)
(* session, and tok, the credential of the request, is never read.         *)
(***************************************************************************)
create_user_by_admin_endpoint_code(tok, email) ==
    IF EmailTaken(email, NoId) THEN HTTP_409_CONFLICT
    ELSE HTTP_201_CREATED

\* user_crud.create_user_by_admin: role and is_active default to "user", True
create_user_by_admin_endpoint(tok, email, role, is_active) ==
    LET code == create_user_by_admin_endpoint_code(tok, email) IN
    /\ users' = IF code = HTTP_201_CREATED
                THEN WithRow(users,
                        UserRow(IF Given(role) THEN role ELSE "user",
                                IF Given(is_active) THEN Bool(is_active) ELSE TRUE,
                                email))
                ELSE users
    /\ resp' = [op |-> "create_user_by_admin_endpoint", code |-> code, tok |-> tok,
                email |-> email, role |-> role]
    /\ UNCHANGED <<fk_enforced, categories, events, participations, subscriptions,
                   comments, reviews, tickets, reqs>>

(***************************************************************************)
(* SpecAccounts: registrations interleaved at their awaits, the admin's    *)
(* deletion of users 3, 4 and 5, and subscribe requests bearing the tokens *)
(* of those users.  E-mail e2 is organizer 2's, n1 and n2 are new.         *)
(***************************************************************************)
NewEmails == {"e2", "n1", "n2"}

NextAccounts ==
    \/ \E slot \in 1..MaxInFlight, email \in NewEmails :
          register_user_begin(slot, email)
    \/ \E slot \in DOMAIN reqs :
          /\ RoomFor(users, register_user_commit_code(slot), MaxUsers)
          /\ register_user_commit(slot)
    \/ \E tok \in {1, 3}, user_id \in {2, 3, 4, 5} :
          delete_user_endpoint(tok, user_id)
    \/ \E tok \in {0, 3}, email \in {"e2", "n2"}, role \in {None, "admin"} :
          /\ RoomFor(users, create_user_by_admin_endpoint_code(tok, email), MaxUsers)
          /\ create_user_by_admin_endpoint(tok, email, role, "True")
    \/ \E tok \in {3, 4, 5}, followee_id \in {1} :
          /\ RoomFor(subscriptions, subscribe_to_user_code(tok, followee_id),
                     MaxSubscriptions)
          /\ subscribe_to_user(tok, followee_id)

SpecAccounts == InitParticipations /\ [][NextAccounts]_vars

(***************************************************************************)
(* SpecEventRefs: rows that reference an event (participations, tickets)   *)
(* are created and deleted while the event's author and others ask for the *)
(* deletion of event 1.  Event 9 does not exist.                           *)
(***************************************************************************)
NextEventRefs ==
    \/ \E tok \in {1, 3}, user_id \in {2, 3}, event_id \in {1, 9} :
          /\ RoomForRow(ParticipationLookup(user_id, event_id), user_id, event_id)
          /\ admin_create_or_update_participation(tok, user_id, event_id, "going")
    \/ \E tok \in {1}, participation_id \in 1..MaxParticipations :
          delete_participation_record_restricted(tok, participation_id)
    \/ \E tok \in {3}, event_id \in {1, 9} :
          /\ RoomFor(tickets, purchase_ticket_code(tok, event_id), MaxTickets)
          /\ purchase_ticket(tok, event_id)
    \/ \E tok \in {3}, ticket_id \in 1..MaxTickets :
          delete_ticket_restricted(tok, ticket_id)
    \/ \E tok \in {1, 2, 3}, event_id \in {1, 9} : delete_event(tok, event_id)

SpecEventRefs == InitParticipations /\ [][NextEventRefs]_vars

(***************************************************************************)
(* create_comment_or_reply, one await at a time.  The handler loads the    *)
(* parent (db.get), computes depth and parent.reply_count + 1 from the row *)
(* it loaded, and the commit writes the new comment and                    *)
(* UPDATE comments SET reply_count = <the computed value>.                 *)
(***************************************************************************)
create_comment_or_reply_begin(slot, tok, event_id, parent_comment_id) ==
    LET pre == IF get_current_active_user(tok) # HTTP_200_OK
               THEN get_current_active_user(tok)
               ELSE comment_parent_check(event_id, parent_comment_id)
    IN
    /\ slot \in FreeSlots
    /\ IF pre = HTTP_200_OK
       THEN /\ reqs' = (slot :>
                  [op |-> "create_comment_or_reply", tok |-> tok, author_id |-> tok,
                   event_id |-> event_id, parent_comment_id |-> parent_comment_id,
                   depth |-> CommentDepth(parent_comment_id),
                   reply_count |-> IF HasParent(parent_comment_id)
                                   THEN comments[parent_comment_id].reply_count + 1
                                   ELSE 0]) @@ reqs
            /\ resp' = NoResponse
       ELSE /\ reqs' = reqs
            /\ resp' = [op |-> "create_comment_or_reply", code |-> pre, tok |-> tok,
                        author_id |-> tok, event_id |-> event_id,
                        parent_comment_id |-> parent_comment_id, id |-> NoId]
    /\ UNCHANGED <<fk_enforced, users, categories, events, participations,
                   subscriptions, comments, reviews, tickets>>

create_comment_or_reply_commit_code(slot) ==
    IF CommentInsertViolates(reqs[slot].author_id, reqs[slot].event_id,
                             reqs[slot].parent_comment_id)
    THEN HTTP_409_CONFLICT
    ELSE HTTP_201_CREATED

create_comment_or_reply_commit(slot) ==
    /\ slot \in DOMAIN reqs
    /\ LET r == reqs[slot]
           code == create_comment_or_reply_commit_code(slot)
           added == WithRow(comments, CommentRow(r.event_id, r.author_id,
                                                 r.parent_comment_id, r.depth))
       IN
       /\ comments' =
             IF code # HTTP_201_CREATED THEN comments
             ELSE IF HasParent(r.parent_comment_id)
                  THEN [added EXCEPT ![r.parent_comment_id].reply_count = r.reply_count]
                  ELSE added
       /\ resp' = [op |-> r.op, code |-> code, tok |-> r.tok, author_id |-> r.author_id,
                   event_id |-> r.event_id, parent_comment_id |-> r.parent_comment_id,
                   id |-> IF code = HTTP_201_CREATED THEN NextId(comments) ELSE NoId]
    /\ reqs' = [i \in (DOMAIN reqs) \ {slot} |-> reqs[i]]
    /\ UNCHANGED <<fk_enforced, users, categories, events, participations,
                   subscriptions, reviews, tickets>>

(***************************************************************************)
(* SpecReplyRace: comment creations on event 1 interleaved at their awaits.*)
(***************************************************************************)
NextReplyRace ==
    \/ \E slot \in 1..MaxInFlight, tok \in {2, 3, 4},
          parent \in ParentIds(MaxComments) \ {0} :
          create_comment_or_reply_begin(slot, tok, 1, parent)
    \/ \E slot \in DOMAIN reqs :
          /\ RoomFor(comments, create_comment_or_reply_commit_code(slot), MaxComments)
          /\ create_comment_or_reply_commit(slot)

SpecReplyRace == InitComments /\ [][NextReplyRace]_vars

(***************************************************************************)
(* src/app/routes/comments.py: update_own_comment (author only).           *)
(***************************************************************************)
\* `not updated_data or not updated_data.get("text")`
NoCommentText(text) == ~Given(text)

\* the handler without its test of the author
update_own_comment_code_AnyUser(tok, comment_id, text) ==
    IF get_current_active_user(tok) # HTTP_200_OK THEN get_current_active_user(tok)
    ELSE IF comment_id \notin DOMAIN comments THEN HTTP_404_NOT_FOUND
    ELSE IF NoCommentText(text) THEN HTTP_400_BAD_REQUEST
    ELSE HTTP_200_OK

update_own_comment_code(tok, comment_id, text) ==
    IF get_current_active_user(tok) # HTTP_200_OK THEN get_current_active_user(tok)
    ELSE IF comment_id \notin DOMAIN comments THEN HTTP_404_NOT_FOUND
    ELSE IF comments[comment_id].author_id # tok THEN HTTP_403_FORBIDDEN
    ELSE IF NoCommentText(text) THEN HTTP_400_BAD_REQUEST
    ELSE HTTP_200_OK

update_own_comment(tok, comment_id, text) ==
    LET code == update_own_comment_code(tok, comment_id, text) IN
    /\ comments' = IF code = HTTP_200_OK
                   THEN [comments EXCEPT ![comment_id].text = text]
                   ELSE comments
    /\ resp' = [op |-> "update_own_comment", code |-> code, tok |-> tok,
                comment_id |-> comment_id, text |-> text]
    /\ UNCHANGED <<fk_enforced, users, categories, events, participations,
                   subscriptions, reviews, tickets, reqs>>

(***************************************************************************)
(* SpecCommentParents: comments and replies on events 1 and 2 with every   *)
(* parent_comment_id a payload can carry (none, 0, an id), text updates    *)
(* and deletions.                                                          *)
(***************************************************************************)
NextCommentParents ==
    \/ \E tok \in {3}, event_id \in {1, 2}, parent \in ParentIds(MaxComments) :
          /\ RoomFor(comments, CreateComment_code(get_current_active_user(tok),
                                                  tok, event_id, parent), MaxComments)
          /\ create_comment_or_reply(tok, event_id, parent)
    \/ \E tok \in {2, 3}, comment_id \in {1, MaxComments}, text \in {Unset, "edit"} :
          update_own_comment(tok, comment_id, text)
    \/ \E tok \in {1}, comment_id \in 1..MaxComments :
          delete_own_or_admin_comment(tok, comment_id)

SpecCommentParents == InitComments /\ [][NextCommentParents]_vars

(***************************************************************************)
(* SpecGates: the admin changes the role and the active flag of user 3,    *)
(* and user 3, with the token it has had from the start, asks for an       *)
(* operation of each gate: purchase_ticket (any active user), create_event *)
(* (organizer or admin), update_ticket_price_by_admin (admin).             *)
(***************************************************************************)
GatePayloads ==
    [role : {Unset, "user", "organizer", "admin"}, is_active : {Unset, "True", "False"},
     email : {Unset}]

NextGates ==
    \/ \E payload \in GatePayloads : update_user_endpoint(1, 3, payload)
    \/ \E tok \in {3}, event_id \in {1, 9} :
          /\ RoomFor(tickets, purchase_ticket_code(tok, event_id), MaxTickets)
          /\ purchase_ticket(tok, event_id)
    \/ \E tok \in {3}, category_id \in {1} :
          /\ RoomFor(events, create_event_code(tok, category_id), MaxEvents)
          /\ create_event(tok, tok, category_id)
    \/ \E tok \in {3}, ticket_id \in 1..MaxTickets :
          update_ticket_price_by_admin(tok, ticket_id, 5)

SpecGates == InitParticipations /\ [][NextGates]_vars

(***************************************************************************)
(* Claims about the subscription handlers (SpecSubscriptions).             *)
(***************************************************************************)
NoSelfSubscription ==
    \A i \in DOMAIN subscriptions :
        subscriptions[i].follower_id # subscriptions[i].followee_id

\* the last response answers a self-subscription request
SelfSubscriptionRequest ==
    /\ resp.op \in {"subscribe_to_user", "create_subscription_by_admin"}
    /\ resp.follower_id = resp.followee_id

\* the status of the dependency the handler of the response in resp' ran under,
\* evaluated in the state the request arrived in
Admitted ==
    IF resp'.op \in {"create_subscription_by_admin", "delete_subscription_by_id_admin",
                     "admin_create_or_update_participation",
                     "create_comment_or_reply_as_author_by_admin", "delete_user_endpoint",
                     "delete_category_admin", "create_review_as_author_by_admin",
                     "create_ticket_by_admin", "update_ticket_price_by_admin"}
    THEN get_current_admin_user(resp'.tok) = HTTP_200_OK
    ELSE get_current_active_user(resp'.tok) = HTTP_200_OK

\* C6: no Subscription row has follower_id = followee_id in any reachable
\* state, and a self-subscription request that subscribe_to_user or
\* create_subscription_by_admin gets from an admitted principal is answered
\* 400 and leaves the table as it was.
C6_NoSelfSubscription ==
    /\ []NoSelfSubscription
    /\ [][(SelfSubscriptionRequest' /\ Admitted) =>
              (resp'.code = HTTP_400_BAD_REQUEST /\ subscriptions' = subscriptions)]_vars

\* a self-subscription was asked for by an admitted principal and refused with 400
C6_Witness ==
    /\ SelfSubscriptionRequest
    /\ resp.op = "subscribe_to_user"
    /\ resp.code = HTTP_400_BAD_REQUEST
    /\ resp.tok \in DOMAIN users /\ users[resp.tok].is_active
    /\ subscriptions # NoTable

\* the rows of the pair the last response is about, and what the same
\* unsubscribe request would be answered now
LastPairRows == SubscriptionRows(resp.follower_id, resp.followee_id)
SameRequestAgain == unsubscribe_from_user_code(resp.tok, resp.followee_id)

\* C7: unsubscribe_from_user by an admitted principal answers 204 whether or
\* not the row exists; with no row it leaves the table unchanged; and after it
\* no row for the pair is left, so that a second call finds the state of the
\* first, leaves it unchanged and answers 204 again.
C7_UnsubscribeIdempotent ==
    [][(resp'.op = "unsubscribe_from_user" /\ Admitted) =>
          /\ resp'.code = HTTP_204_NO_CONTENT
          /\ (SubscriptionRows(resp'.follower_id, resp'.followee_id) = {}
                 => subscriptions' = subscriptions)
          /\ LastPairRows' = {}
          /\ SameRequestAgain' = HTTP_204_NO_CONTENT]_vars

\* an unsubscribe that found no row has been answered 204
C7_Witness ==
    /\ resp.op = "unsubscribe_from_user"
    /\ resp.code = HTTP_204_NO_CONTENT
    /\ ~resp.found
    /\ subscriptions # NoTable



(***************************************************************************)
(* Claims about the participation handlers.                                *)
(***************************************************************************)
SetStatusOps == {"set_my_participation_status", "admin_create_or_update_participation"}

\* the rows of the (user, event) pair the last response is about
LastParticipationRows == ParticipationRows(resp.user_id, resp.event_id)

AtMostOneParticipationPerPair ==
    \A i, j \in DOMAIN participations :
        (/\ participations[i].user_id = participations[j].user_id
         /\ participations[i].event_id = participations[j].event_id) => i = j

C3_RaceLoserGetsConflict ==
    /\ []AtMostOneParticipationPerPair
    /\ [][(resp'.op \in SetStatusOps /\ resp'.action = "created") =>
             IF ParticipationRows(resp'.user_id, resp'.event_id) # {}
             THEN /\ resp'.code = HTTP_409_CONFLICT
                  /\ participations' = participations
             ELSE (resp'.user_id \in DOMAIN users /\ resp'.event_id \in DOMAIN events)
                     => /\ resp'.code \in {HTTP_200_OK, HTTP_201_CREATED}
                        /\ Cardinality(LastParticipationRows') = 1]_vars

\* two requests missed the lookup; the second to commit was answered 409 and
\* the pair has its one row, while nothing else is in flight
C3_Witness ==
    /\ resp.op \in SetStatusOps
    /\ resp.action = "created"
    /\ resp.code = HTTP_409_CONFLICT
    /\ Cardinality(LastParticipationRows) = 1
    /\ reqs = NoTable

(***************************************************************************)
(* Claims about the comment handlers.                                      *)
(***************************************************************************)
Replies(c) == {d \in DOMAIN comments : comments[d].parent_comment_id = c}

\* C1 (SpecComments): in every reachable state the reply_count of every
\* comment is the number of comments whose parent_comment_id is its id.
C1_ReplyCountIsNumberOfReplies ==
    \A c \in DOMAIN comments : comments[c].reply_count = Cardinality(Replies(c))

\* a reply has been counted on its parent
C1_Witness ==
    \E c \in DOMAIN comments :
        comments[c].reply_count = 1 /\ Cardinality(Replies(c)) = 1

CreateCommentOps == {"create_comment_or_reply", "create_comment_or_reply_as_author_by_admin"}

\* the last response answers a request to reply to an existing comment of the
\* same, existing event on behalf of an existing author
ReplyRequest ==
    /\ resp'.op \in CreateCommentOps
    /\ Admitted
    /\ resp'.event_id \in DOMAIN events
    /\ resp'.author_id \in DOMAIN users
    /\ resp'.parent_comment_id \in DOMAIN comments
    /\ comments[resp'.parent_comment_id].event_id = resp'.event_id

\* C4 (SpecThread): on both creation paths a reply to a parent of depth d < 4
\* is answered 201 and adds one comment of depth d + 1 under that parent; a
\* reply to a parent of depth 4 is answered 400 and adds no comment.
C4_ReplyDepthLimit ==
    [][ReplyRequest =>
          IF comments[resp'.parent_comment_id].depth < 4
          THEN /\ resp'.code = HTTP_201_CREATED
               /\ DOMAIN comments' = DOMAIN comments \cup {resp'.id}
               /\ resp'.id \notin DOMAIN comments
               /\ comments'[resp'.id].parent_comment_id = resp'.parent_comment_id
               /\ comments'[resp'.id].depth = comments[resp'.parent_comment_id].depth + 1
          ELSE /\ resp'.code = HTTP_400_BAD_REQUEST
               /\ comments' = comments]_vars

\* a chain of depths 0, 1, 2, 3, 4 stands and a reply to its depth-4 comment
\* has been refused with 400
C4_Witness ==
    /\ resp.op = "create_comment_or_reply_as_author_by_admin"
    /\ resp.code = HTTP_400_BAD_REQUEST
    /\ resp.parent_comment_id \in DOMAIN comments
    /\ comments[resp.parent_comment_id].depth = 4
    /\ \A d \in 1..4 : \E c \in DOMAIN comments :
          /\ comments[c].depth = d
          /\ comments[c].parent_comment_id \in DOMAIN comments
          /\ comments[comments[c].parent_comment_id].depth = d - 1

\* the comment rows a step removes
RemovedComments == (DOMAIN comments) \ (DOMAIN comments')

\* C5 (SpecComments): a delete_own_or_admin_comment answered 204 removes the
\* comment and with it exactly the rows of its subtree: no row that is left
\* has a removed row as its parent, every removed row but the comment itself
\* hangs under a removed row, and the reply_count of every row that is left
\* has gone down by the number of its replies that were removed.
C5_DeleteRemovesSubtree ==
    [][(resp'.op = "delete_own_or_admin_comment" /\ resp'.code = HTTP_204_NO_CONTENT) =>
          /\ resp'.comment_id \in RemovedComments
          /\ DOMAIN comments' \subseteq DOMAIN comments
          /\ \A d \in DOMAIN comments' :
                comments'[d].parent_comment_id \notin RemovedComments
          /\ \A d \in RemovedComments :
                d = resp'.comment_id \/ comments[d].parent_comment_id \in RemovedComments
          /\ \A r \in DOMAIN comments' :
                comments'[r] =
                   [comments[r] EXCEPT !.reply_count =
                       @ - Cardinality(Replies(r) \cap RemovedComments)]]_vars

\* a reply that had a reply of its own was deleted: both rows are gone and
\* the comment above them counts no reply any more
C5_Witness ==
    /\ resp.op = "delete_own_or_admin_comment"
    /\ resp.code = HTTP_204_NO_CONTENT
    /\ resp.removed = 2
    /\ comments # NoTable
    /\ \A c \in DOMAIN comments : comments[c].reply_count = 0 /\ Replies(c) = {}

(***************************************************************************)
(* Claims about update_user_endpoint (SpecUsers).                          *)
(***************************************************************************)
\* the request answered in resp' asks for a role or an is_active flag that
\* the target row, which exists, does not have
WouldChangeRoleOrActive ==
    /\ resp'.op = "update_user_endpoint"
    /\ resp'.user_id \in DOMAIN users
    /\ \/ resp'.payload.role \in Roles /\ resp'.payload.role # users[resp'.user_id].role
       \/ /\ Given(resp'.payload.is_active)
          /\ Bool(resp'.payload.is_active) # users[resp'.user_id].is_active

\* the rest of the payload is something the store can take: no explicit
\* null, and an address no other user holds
PayloadStorable ==
    ~UserUpdateViolates(resp'.user_id, resp'.payload)

\* C8: an update_user_endpoint request of a non-admin that asks for another
\* role or is_active flag than the target row has, their own row or another
\* user's, leaves every row as it was and, the requester being active, is
\* answered 403; the same request of an active admin, with a payload the
\* store can take, is answered 200 and the row has the role and the flag
\* asked for.
C8_RoleAndActiveAdminOnly ==
    [][(WouldChangeRoleOrActive /\ resp'.tok \in DOMAIN users) =>
          IF users[resp'.tok].role # "admin"
          THEN /\ users' = users
               /\ Admitted => resp'.code = HTTP_403_FORBIDDEN
          ELSE (Admitted /\ PayloadStorable) =>
                  /\ resp'.code = HTTP_200_OK
                  /\ Given(resp'.payload.role) =>
                        users'[resp'.user_id].role = resp'.payload.role
                  /\ Given(resp'.payload.is_active) =>
                        users'[resp'.user_id].is_active = Bool(resp'.payload.is_active)
                  /\ users'[resp'.user_id] # users[resp'.user_id]]_vars

\* user 3, a non-admin, asked for the role admin on their own row and was
\* refused with 403, after the admin had changed a row
C8_Witness ==
    /\ resp.op = "update_user_endpoint"
    /\ resp.code = HTTP_403_FORBIDDEN
    /\ resp.tok = resp.user_id
    /\ resp.payload.role = "admin"
    /\ users[resp.tok].role = "user"
    /\ users # InitUsers

(***************************************************************************)
(* Claims about categories and events (SpecEvents).                        *)
(***************************************************************************)
\* C9: delete_category_admin, asked by an admitted admin for a category that
\* n >= 1 events refer to, is answered 409 with n in the answer and leaves
\* the category and the events in place; asked for a category no event
\* refers to, it is answered 204 and the category is gone.
C9_CategoryDeleteGuard ==
    [][(/\ resp'.op = "delete_category_admin"
        /\ Admitted
        /\ resp'.category_id \in categories) =>
          LET n == Cardinality({e \in DOMAIN events :
                                   events[e].category_id = resp'.category_id})
          IN IF n >= 1
             THEN /\ resp'.code = HTTP_409_CONFLICT
                  /\ resp'.count = n
                  /\ categories' = categories
                  /\ events' = events
             ELSE /\ resp'.code = HTTP_204_NO_CONTENT
                  /\ categories' = categories \ {resp'.category_id}]_vars

\* category 1, which event 1 referred to at the start, has been deleted
\* while events exist: they were moved to category 2 or created there
C9_Witness ==
    /\ resp.op = "delete_category_admin"
    /\ resp.code = HTTP_204_NO_CONTENT
    /\ resp.category_id = 1
    /\ 1 \notin categories
    /\ events # NoTable
    /\ \A e \in DOMAIN events : events[e].category_id = 2

\* C10: create_event asked by a principal whose role is user creates no
\* event and, the principal being active, is answered 403; an answer 201
\* is given only to an active principal whose role at that time is organizer
\* or admin, and such a principal gets it whenever the store takes the row.
C10_OrganizerOrAdminGate ==
    [][resp'.op = "create_event" =>
          /\ (resp'.tok \in DOMAIN users /\ users[resp'.tok].role = "user") =>
                /\ events' = events
                /\ users[resp'.tok].is_active => resp'.code = HTTP_403_FORBIDDEN
          /\ resp'.code = HTTP_201_CREATED =>
                /\ resp'.tok \in DOMAIN users
                /\ users[resp'.tok].is_active
                /\ users[resp'.tok].role \in {"organizer", "admin"}
                /\ DOMAIN events' = DOMAIN events \cup {resp'.id}
          /\ (/\ resp'.tok \in DOMAIN users
              /\ users[resp'.tok].is_active
              /\ users[resp'.tok].role \in {"organizer", "admin"}
              /\ ~FkCategoryViolated(resp'.category_id)) =>
                resp'.code = HTTP_201_CREATED]_vars

\* user 3 created an event while organizer and, back to the role user, is
\* refused with 403
C10_Witness ==
    /\ resp.op = "create_event"
    /\ resp.code = HTTP_403_FORBIDDEN
    /\ resp.tok = 3
    /\ users[3].role = "user"
    /\ \E e \in DOMAIN events : events[e].author_id = 3

\* C11 (SpecEvents): the event a create_event answered 201 has stored has
\* the requester as its author, whatever author_id the payload carries, and
\* is the only change of the events; so two requests of one principal that
\* differ in the payload's author_id alone store the same author.
C11_AuthorIsRequester ==
    [][(resp'.op = "create_event" /\ resp'.code = HTTP_201_CREATED) =>
          /\ resp'.id \notin DOMAIN events
          /\ DOMAIN events' = DOMAIN events \cup {resp'.id}
          /\ events'[resp'.id].author_id = resp'.tok
          /\ \A e \in DOMAIN events : events'[e] = events[e]]_vars

\* two events of user 2 stand, the second created by a request whose payload
\* named user 1 as author
C11_Witness ==
    /\ resp.op = "create_event"
    /\ resp.code = HTTP_201_CREATED
    /\ resp.author_id # resp.tok
    /\ Cardinality({e \in DOMAIN events : events[e].author_id = resp.tok}) = 2

(***************************************************************************)
(* Claims about the review handlers (SpecReviews).                         *)
(***************************************************************************)
AtMostOneReviewPerPair ==
    \A i, j \in DOMAIN reviews :
        (/\ reviews[i].author_id = reviews[j].author_id
         /\ reviews[i].event_id = reviews[j].event_id) => i = j

CreateReviewOps == {"create_review", "create_review_as_author_by_admin"}

\* C12: no state holds two reviews of one (author_id, event_id) pair, and a
\* review creation of an admitted principal, on either path, for a pair that
\* has a review is answered 409 and adds no row.
C12_OneReviewPerPair ==
    /\ []AtMostOneReviewPerPair
    /\ [][(/\ resp'.op \in CreateReviewOps
           /\ Admitted
           /\ ReviewRows(resp'.author_id, resp'.event_id) # {}) =>
              (resp'.code = HTTP_409_CONFLICT /\ reviews' = reviews)]_vars

\* create_review has refused the second review of a pair with 409
C12_Witness ==
    /\ resp.op = "create_review"
    /\ resp.code = HTTP_409_CONFLICT
    /\ Cardinality(ReviewRows(resp.author_id, resp.event_id)) = 1

\* the last response answers an admitted admin who asked to update (with
\* some field given) or to delete an existing review of another author
AdminOnForeignReview ==
    /\ resp'.op \in {"update_own_review", "delete_own_or_admin_review"}
    /\ Admitted
    /\ users[resp'.tok].role = "admin"
    /\ resp'.review_id \in DOMAIN reviews
    /\ reviews[resp'.review_id].author_id # resp'.tok
    /\ resp'.op = "update_own_review" => ~NoReviewFields(resp'.payload)

\* C19 as stated: an admin who is not the author of a review is let through
\* both to update it and to delete it.
C19_AdminMayUpdateAndDelete ==
    [][AdminOnForeignReview =>
          resp'.code \in {HTTP_200_OK, HTTP_204_NO_CONTENT}]_vars

\* C19 as amended: an admin who is not the author of a review is let through
\* to delete it (204, the row is gone) and is refused the update (403, the
\* reviews unchanged): update_own_review is for the author alone.
C19_AdminMayDeleteNotUpdate ==
    [][AdminOnForeignReview =>
          IF resp'.op = "delete_own_or_admin_review"
          THEN /\ resp'.code = HTTP_204_NO_CONTENT
               /\ reviews' = Without(reviews, {resp'.review_id})
          ELSE /\ resp'.code = HTTP_403_FORBIDDEN
               /\ reviews' = reviews]_vars

\* the admin has deleted a review user 3 wrote
C19_Witness ==
    /\ resp.op = "delete_own_or_admin_review"
    /\ resp.code = HTTP_204_NO_CONTENT
    /\ resp.tok = 1
    /\ resp.review_id \notin DOMAIN reviews
    /\ reviews # NoTable


(***************************************************************************)
(* Claims about concurrent subscribe requests (SpecSubscribeRace).         *)
(***************************************************************************)
AtMostOneSubscriptionPerPair ==
    \A i, j \in DOMAIN subscriptions :
        (/\ subscriptions[i].follower_id = subscriptions[j].follower_id
         /\ subscriptions[i].followee_id = subscriptions[j].followee_id) => i = j

SubscribeOps == {"subscribe_to_user", "create_subscription_by_admin"}

\* C13 (SpecSubscribeRace): a subscribe request of an admitted principal for a
\* pair that has a Subscription row when the request is answered gets 409 and
\* leaves the table as it was, whether the row was there at the handler's
\* test or was committed by another request after it; and no reachable state
\* holds two Subscription rows for one pair.
C13_OneSubscriptionPerPair ==
    /\ []AtMostOneSubscriptionPerPair
    /\ [][(/\ resp'.op \in SubscribeOps
           /\ Admitted
           /\ SubscriptionExists(resp'.follower_id, resp'.followee_id)) =>
             /\ resp'.code = HTTP_409_CONFLICT
             /\ subscriptions' = subscriptions]_vars

\* a request that passed the handler's test lost the race at its commit: it
\* was answered 409 and the pair has its one row
C13_Witness ==
    /\ resp.op = "subscribe_to_user"
    /\ resp.committing
    /\ resp.code = HTTP_409_CONFLICT
    /\ resp.followee_id \in DOMAIN users
    /\ Cardinality(SubscriptionRows(resp.follower_id, resp.followee_id)) = 1

(***************************************************************************)
(* Claims about the ticket handlers (SpecTickets).                         *)
(***************************************************************************)
AtMostOneTicketPerPair ==
    \A i, j \in DOMAIN tickets :
        (/\ tickets[i].user_id = tickets[j].user_id
         /\ tickets[i].event_id = tickets[j].event_id) => i = j

CreateTicketOps == {"purchase_ticket", "create_ticket_by_admin"}

\* C14 (SpecTickets): no reachable state holds two Ticket rows for one
\* (user_id, event_id) pair, and a purchase_ticket or create_ticket_by_admin
\* request of an admitted principal for a pair that has a ticket is answered
\* 409 and leaves the table as it was.
C14_OneTicketPerPair ==
    /\ []AtMostOneTicketPerPair
    /\ [][(/\ resp'.op \in CreateTicketOps
           /\ Admitted
           /\ TicketRows(resp'.user_id, resp'.event_id) # {}) =>
             /\ resp'.code = HTTP_409_CONFLICT
             /\ tickets' = tickets]_vars

\* the admin's creation for a pair whose ticket was purchased was answered 409
C14_Witness ==
    /\ resp.op = "create_ticket_by_admin"
    /\ resp.code = HTTP_409_CONFLICT
    /\ resp.user_id \in DOMAIN users
    /\ \E i \in TicketRows(resp.user_id, resp.event_id) :
          tickets[i].price = DefaultTicketPrice
    /\ Cardinality(TicketRows(resp.user_id, resp.event_id)) = 1

ErrorCodes ==
    {HTTP_400_BAD_REQUEST, HTTP_401_UNAUTHORIZED, HTTP_403_FORBIDDEN,
     HTTP_404_NOT_FOUND, HTTP_409_CONFLICT, HTTP_500_INTERNAL_SERVER_ERROR}

\* the rows of every table
store == <<users, categories, events, participations, subscriptions, comments,
           reviews, tickets>>

\* C15 (SpecTickets): a request that is answered with an error code (400, 401,
\* 403, 404, 409 or 500) leaves every table as it was before the request.
C15_ErrorLeavesStoreUnchanged ==
    [][(resp'.code \in ErrorCodes) => store' = store]_vars

\* the admin's price update was answered 500 and the ticket has a NULL price
C15_Witness ==
    /\ resp.op = "update_ticket_price_by_admin"
    /\ resp.code = HTTP_500_INTERNAL_SERVER_ERROR
    /\ resp.ticket_id \in DOMAIN tickets
    /\ tickets[resp.ticket_id].price = NoId

RestrictedTicketOps == {"get_ticket_by_id_restricted", "delete_ticket_restricted"}

\* the requester of the response in resp' owns the ticket, is an admin, or is
\* the author of the ticket's event, in the state the request arrived in
OwnerAdminOrEventAuthor ==
    LET t == tickets[resp'.ticket_id] IN
    \/ t.user_id = resp'.tok
    \/ users[resp'.tok].role = "admin"
    \/ \E e \in DOMAIN events : e = t.event_id /\ events[e].author_id = resp'.tok

\* C20 (SpecTickets): get_ticket_by_id_restricted and delete_ticket_restricted,
\* asked by an admitted principal for an existing ticket, answer 200 / 204
\* only if the principal owns the ticket, is an admin or is the author of the
\* ticket's event; any other principal is answered 403 and the tickets stay
\* as they were.
C20_TicketAccessRestricted ==
    [][(/\ resp'.op \in RestrictedTicketOps
        /\ Admitted
        /\ resp'.ticket_id \in DOMAIN tickets) =>
          /\ resp'.code \in {HTTP_200_OK, HTTP_204_NO_CONTENT} => OwnerAdminOrEventAuthor
          /\ ~OwnerAdminOrEventAuthor =>
                /\ resp'.code = HTTP_403_FORBIDDEN
                /\ tickets' = tickets]_vars

\* an organizer who neither owns the ticket nor wrote its event asked to
\* delete it: 403, and the ticket is still there
C20_Witness ==
    /\ resp.op = "delete_ticket_restricted"
    /\ resp.code = HTTP_403_FORBIDDEN
    /\ users[resp.tok].role = "organizer"
    /\ resp.ticket_id \in DOMAIN tickets
    /\ tickets[resp.ticket_id].user_id # resp.tok
    /\ events[tickets[resp.ticket_id].event_id].author_id # resp.tok

\* the response in resp' answers a request that carried the valid credential
\* of a user whose is_active flag was false when the request arrived
InactiveRequest ==
    /\ resp'.op # "none"
    /\ resp'.tok \in DOMAIN users
    /\ ~users[resp'.tok].is_active

\* C17 as stated (SpecTickets): a request of an inactive user to a handler
\* that needs an active principal is answered 403 (Forbidden) and changes
\* nothing.
C17_InactiveIsForbidden ==
    [][InactiveRequest => (resp'.code = HTTP_403_FORBIDDEN /\ store' = store)]_vars

\* C17 (SpecTickets): a request of an inactive user to a handler that needs an
\* active principal is answered 400 (Bad Request, "Inactive user."), whatever
\* the user's role and whoever owns the row it names, and changes nothing.
C17_InactiveIsBadRequest ==
    [][InactiveRequest => (resp'.code = HTTP_400_BAD_REQUEST /\ store' = store)]_vars

\* an inactive user without the admin role asked for the admin's price update
\* of an existing ticket: 400, not the 403 of the role test
C17_Witness ==
    /\ resp.op = "update_ticket_price_by_admin"
    /\ resp.tok \in DOMAIN users
    /\ ~users[resp.tok].is_active
    /\ users[resp.tok].role # "admin"
    /\ resp.ticket_id \in DOMAIN tickets
    /\ resp.price = 5
    /\ resp.code = HTTP_400_BAD_REQUEST

(***************************************************************************)
(* Claims about registration and deleted users (SpecAccounts).             *)
(***************************************************************************)
\* C16 (SpecAccounts): a registration whose commit the store rejects, because
\* the e-mail has been taken since the handler looked it up, is answered 409
\* or 404, never 500, and changes nothing.
C16_RejectedCommitIsConflict ==
    [][(/\ resp'.op = "register_user"
        /\ resp'.committing
        /\ EmailTaken(resp'.email, NoId)) =>
          /\ resp'.code \in {HTTP_409_CONFLICT, HTTP_404_NOT_FOUND}
          /\ store' = store]_vars

\* the second of two registrations of one e-mail was answered 500 at its
\* commit; the e-mail has its one user
C16_Witness ==
    /\ resp.op = "register_user"
    /\ resp.committing
    /\ resp.code = HTTP_500_INTERNAL_SERVER_ERROR
    /\ Cardinality({i \in DOMAIN users : users[i].email = resp.email}) = 1

\* SpecAccounts changes no e-mail and registers none of a user it deletes, so
\* the user that was issued the token of id u at the start has been deleted
\* once u is free or belongs to another e-mail
WasDeleted(u) ==
    /\ u \in DOMAIN InitUsers
    /\ (u \notin DOMAIN users \/ users[u].email # InitUsers[u].email)

\* C18 (SpecAccounts): a request to a handler that needs a principal, bearing
\* the token of a user that has been deleted before the request arrived, is
\* answered 401 and changes nothing.
C18_DeletedCredentialRejected ==
    [][(/\ resp'.op \in {"subscribe_to_user", "delete_user_endpoint"}
        /\ WasDeleted(resp'.tok)) =>
          /\ resp'.code = HTTP_401_UNAUTHORIZED
          /\ store' = store]_vars

\* the token of the deleted user 4 was accepted for the user registered
\* after the deletion, and subscribed that user
C18_Witness ==
    /\ resp.op = "subscribe_to_user"
    /\ resp.code = HTTP_201_CREATED
    /\ resp.tok \in DOMAIN users \cap DOMAIN InitUsers
    /\ users[resp.tok].email # InitUsers[resp.tok].email
    /\ SubscriptionExists(resp.tok, resp.followee_id)

(***************************************************************************)
(* Claims about updates that carry no field (SpecUsers).                   *)
(***************************************************************************)
\* the response in resp' answers an update of an existing user, asked by the
\* user or by an admin, whose payload sets no field at all
EmptyUserUpdate ==
    /\ resp'.op = "update_user_endpoint"
    /\ Admitted
    /\ resp'.user_id \in DOMAIN users
    /\ (resp'.tok = resp'.user_id \/ users[resp'.tok].role = "admin")
    /\ resp'.payload = [role |-> Unset, is_active |-> Unset, email |-> Unset]

\* C21 (SpecUsers): update_user_endpoint, asked by a permitted principal for
\* an existing user with a payload that sets no field, answers 400 and leaves
\* the users as they were.
C21_EmptyUpdateIsBadRequest ==
    [][EmptyUserUpdate => (resp'.code = HTTP_400_BAD_REQUEST /\ users' = users)]_vars

\* user 3 sent an empty update of their own row and was answered 200
C21_Witness ==
    /\ resp.op = "update_user_endpoint"
    /\ resp.tok = resp.user_id
    /\ resp.payload = [role |-> Unset, is_active |-> Unset, email |-> Unset]
    /\ resp.code = HTTP_200_OK
    /\ users[resp.user_id] = InitUsers[resp.user_id]

(***************************************************************************)
(* Claims about the deletion of a user (SpecAccounts).                     *)
(***************************************************************************)
\* the user named by the last response is gone, and so is every row it owned
LastUserAndRowsGone ==
    /\ resp.user_id \notin DOMAIN users
    /\ \A e \in DOMAIN events : events[e].author_id # resp.user_id
    /\ \A i \in DOMAIN participations : participations[i].user_id # resp.user_id
    /\ \A i \in DOMAIN comments : comments[i].author_id # resp.user_id
    /\ \A i \in DOMAIN reviews : reviews[i].author_id # resp.user_id
    /\ \A i \in DOMAIN tickets : tickets[i].user_id # resp.user_id
    /\ \A i \in DOMAIN subscriptions :
          /\ subscriptions[i].follower_id # resp.user_id
          /\ subscriptions[i].followee_id # resp.user_id

\* C22 (SpecAccounts): delete_user_endpoint, asked by an admin for an existing
\* user other than the admin, answers 204, and afterwards the user, the
\* events it wrote, its participations, comments, reviews and tickets, and
\* the subscriptions it is a side of are gone.
C22_DeleteUserCascades ==
    [][(/\ resp'.op = "delete_user_endpoint"
        /\ Admitted
        /\ resp'.tok # resp'.user_id
        /\ resp'.user_id \in DOMAIN users) =>
          /\ resp'.code = HTTP_204_NO_CONTENT
          /\ LastUserAndRowsGone']_vars

\* the admin's deletion of the organizer, who wrote an event, was answered 409:
\* the organizer and the event are still there
C22_Witness ==
    /\ resp.op = "delete_user_endpoint"
    /\ resp.code = HTTP_409_CONFLICT
    /\ resp.user_id \in DOMAIN users
    /\ \E e \in DOMAIN events : events[e].author_id = resp.user_id

\* C23 (SpecAccounts): a create_user_by_admin_endpoint request that does not
\* carry the credential of an active admin leaves the users as they were.
C23_CreateUserNeedsAdmin ==
    [][(/\ resp'.op = "create_user_by_admin_endpoint"
        /\ get_current_admin_user(resp'.tok) # HTTP_200_OK) => users' = users]_vars

\* a request without a credential was answered 201 and an admin was created
C23_Witness ==
    /\ resp.op = "create_user_by_admin_endpoint"
    /\ resp.code = HTTP_201_CREATED
    /\ resp.tok = 0
    /\ \E i \in DOMAIN users :
          /\ users[i].email = resp.email
          /\ users[i].role = "admin"
          /\ i \notin DOMAIN InitUsers \/ users[i] # InitUsers[i]

(***************************************************************************)
(* Claims about rows that reference an event (SpecEventRefs).              *)
(***************************************************************************)
NoDanglingEventId ==
    /\ \A i \in DOMAIN participations : participations[i].event_id \in DOMAIN events
    /\ \A i \in DOMAIN tickets : tickets[i].event_id \in DOMAIN events
    /\ \A i \in DOMAIN comments : comments[i].event_id \in DOMAIN events
    /\ \A i \in DOMAIN reviews : reviews[i].event_id \in DOMAIN events

\* no row references the event named by the last response
LastEventRowsGone ==
    /\ \A i \in DOMAIN participations : participations[i].event_id # resp.event_id
    /\ \A i \in DOMAIN tickets : tickets[i].event_id # resp.event_id
    /\ \A i \in DOMAIN comments : comments[i].event_id # resp.event_id
    /\ \A i \in DOMAIN reviews : reviews[i].event_id # resp.event_id

\* C24 (SpecEventRefs): no participation, ticket, comment or review carries
\* the event_id of an event that does not exist, in any reachable state; and
\* delete_event of an event that such rows reference either fails and changes
\* nothing or removes the event together with those rows.
C24_EventReferencesStayValid ==
    /\ []NoDanglingEventId
    /\ [][(/\ resp'.op = "delete_event"
           /\ resp'.event_id \in DOMAIN events
           /\ ~LastEventRowsGone') =>
             /\ resp'.code # HTTP_204_NO_CONTENT
             /\ store' = store]_vars

\* the admin's set-status request for an event that does not exist was
\* answered 201 and its participation is stored
C24_Witness ==
    /\ resp.op = "admin_create_or_update_participation"
    /\ resp.code = HTTP_201_CREATED
    /\ resp.event_id \notin DOMAIN events
    /\ ParticipationRows(resp.user_id, resp.event_id) # {}

(***************************************************************************)
(* Claims about concurrent replies (SpecReplyRace).                        *)
(***************************************************************************)
\* reply_count of the parent named by the last response
LastParentReplyCount == comments[resp.parent_comment_id].reply_count

\* C25 (SpecReplyRace): every reply that is created raises the reply_count of
\* its parent by one over the value stored just before its commit, so that
\* two replies to one parent raise it by two however their requests
\* interleave.
C25_NoLostReplyCount ==
    [][(/\ resp'.op = "create_comment_or_reply"
        /\ resp'.code = HTTP_201_CREATED
        /\ resp'.parent_comment_id \in DOMAIN comments) =>
          LastParentReplyCount' = comments[resp'.parent_comment_id].reply_count + 1]_vars

\* two replies to one parent are stored and the parent counts one
C25_Witness ==
    /\ resp.op = "create_comment_or_reply"
    /\ resp.code = HTTP_201_CREATED
    /\ resp.parent_comment_id \in DOMAIN comments
    /\ Cardinality({c \in DOMAIN comments :
                       comments[c].parent_comment_id = resp.parent_comment_id}) = 2
    /\ LastParentReplyCount = 1

(***************************************************************************)
(* Claims about the frame of a comment deletion (SpecComments).            *)
(***************************************************************************)
\* a is reached from d by following parent_comment_id at most n times
RECURSIVE AncestorWithin(_, _, _)
AncestorWithin(a, d, n) ==
    IF n = 0 \/ d \notin DOMAIN comments THEN FALSE
    ELSE \/ comments[d].parent_comment_id = a
         \/ AncestorWithin(a, comments[d].parent_comment_id, n - 1)

\* c and the comments below it
Subtree(c) ==
    {c} \cup {d \in DOMAIN comments : AncestorWithin(c, d, Cardinality(DOMAIN comments))}

\* C26 (SpecComments): a successful delete_own_or_admin_comment of c keeps
\* every comment outside c's subtree; of those, the parent of c has its
\* reply_count lowered by one, not below 0, and is otherwise unchanged, and
\* every other one, the parent's ancestors included, is unchanged.
C26_DeleteTouchesParentOnly ==
    [][(/\ resp'.op = "delete_own_or_admin_comment"
        /\ resp'.code = HTTP_204_NO_CONTENT) =>
          \A d \in (DOMAIN comments) \ Subtree(resp'.comment_id) :
             /\ d \in DOMAIN comments'
             /\ comments'[d] =
                   IF d = comments[resp'.comment_id].parent_comment_id
                   THEN [comments[d] EXCEPT
                           !.reply_count = IF @ > 0 THEN @ - 1 ELSE 0]
                   ELSE comments[d]]_vars

\* the last of a chain of three comments was deleted: its parent counts no
\* reply, the parent's parent still counts one
C26_Witness ==
    /\ resp.op = "delete_own_or_admin_comment"
    /\ resp.code = HTTP_204_NO_CONTENT
    /\ resp.comment_id \notin DOMAIN comments
    /\ \E g, p \in DOMAIN comments :
          /\ comments[p].parent_comment_id = g
          /\ comments[p].reply_count = 0
          /\ comments[g].reply_count = 1

(***************************************************************************)
(* Claims about the parent of a comment (SpecCommentParents).              *)
(***************************************************************************)
\* C27 (SpecCommentParents): in every reachable state a comment without a
\* parent_comment_id has depth 0, any other comment has a parent and its
\* parent's depth + 1, and every depth is one of 0..4.
C27_DepthFollowsParent ==
    \A c \in DOMAIN comments :
       /\ comments[c].depth \in 0..MAX_PARENT_DEPTH
       /\ IF comments[c].parent_comment_id = NoId
          THEN comments[c].depth = 0
          ELSE /\ comments[c].parent_comment_id \in DOMAIN comments
               /\ comments[c].depth = comments[comments[c].parent_comment_id].depth + 1

\* a request with parent_comment_id 0 was answered 201; its comment is stored
\* with that parent_comment_id and depth 0
C27_Witness ==
    /\ resp.op = "create_comment_or_reply"
    /\ resp.code = HTTP_201_CREATED
    /\ resp.parent_comment_id = 0
    /\ resp.id \in DOMAIN comments
    /\ comments[resp.id].parent_comment_id = 0
    /\ comments[resp.id].depth = 0

RepliesShareEvent ==
    \A c \in DOMAIN comments :
       comments[c].parent_comment_id \in DOMAIN comments =>
          comments[comments[c].parent_comment_id].event_id = comments[c].event_id

\* C28 (SpecCommentParents): every reply is on the event of its parent
\* comment, in every reachable state; create_comment_or_reply with a parent
\* of another event than the one in the payload is answered 400 and stores
\* nothing; and no request changes the event_id or the parent_comment_id of a
\* comment it leaves in the table.
C28_ReplyStaysInEvent ==
    /\ []RepliesShareEvent
    /\ [][(/\ resp'.op = "create_comment_or_reply"
           /\ Admitted
           /\ resp'.event_id \in DOMAIN events
           /\ resp'.parent_comment_id \in DOMAIN comments
           /\ comments[resp'.parent_comment_id].event_id # resp'.event_id) =>
             /\ resp'.code = HTTP_400_BAD_REQUEST
             /\ comments' = comments]_vars
    /\ [][\A c \in (DOMAIN comments) \cap (DOMAIN comments') :
             /\ comments'[c].event_id = comments[c].event_id
             /\ comments'[c].parent_comment_id = comments[c].parent_comment_id]_vars

\* a reply on event 2 to a comment of event 1 was answered 400, and the
\* comment's text has been updated meanwhile
C28_Witness ==
    /\ resp.op = "create_comment_or_reply"
    /\ resp.code = HTTP_400_BAD_REQUEST
    /\ resp.parent_comment_id \in DOMAIN comments
    /\ comments[resp.parent_comment_id].event_id # resp.event_id
    /\ comments[resp.parent_comment_id].depth < MAX_PARENT_DEPTH
    /\ comments[resp.parent_comment_id].text = "edit"

(***************************************************************************)
(* Claims about ticket prices (SpecTickets).                               *)
(***************************************************************************)
\* C29 (SpecTickets): in every reachable state every ticket has a price, and
\* the price is not below 0.
C29_TicketPriceSet ==
    \A i \in DOMAIN tickets : tickets[i].price # NoId /\ tickets[i].price >= 0

\* one of two tickets has lost its price to an update that set price to null
C29_Witness ==
    /\ resp.op = "update_ticket_price_by_admin"
    /\ resp.price = NoId
    /\ \E i \in DOMAIN tickets : i = resp.ticket_id /\ tickets[i].price = NoId
    /\ \E i \in DOMAIN tickets : tickets[i].price = DefaultTicketPrice

(***************************************************************************)
(* Claims about the values a request is gated by (SpecGates).              *)
(***************************************************************************)
\* the roles the handler of the response in resp' admits
GateRoles ==
    IF resp'.op = "create_event" THEN {"organizer", "admin"}
    ELSE IF resp'.op = "update_ticket_price_by_admin" THEN {"admin"}
    ELSE Roles

\* C30 (SpecGates): a request to purchase_ticket, create_event or
\* update_ticket_price_by_admin is gated by the role and the active flag its
\* user has in the store when the request arrives, whatever they were when
\* the token was issued: with the flag false it is answered 400, with the
\* flag true and a role outside the handler's gate 403, in both cases without
\* any change, and otherwise it goes on to the handler.
C30_GatedByStoredValues ==
    [][(/\ resp'.op \in {"purchase_ticket", "create_event",
                         "update_ticket_price_by_admin"}
        /\ resp'.tok \in DOMAIN users) =>
          IF ~users[resp'.tok].is_active
          THEN resp'.code = HTTP_400_BAD_REQUEST /\ store' = store
          ELSE IF users[resp'.tok].role \notin GateRoles
          THEN resp'.code = HTTP_403_FORBIDDEN /\ store' = store
          ELSE resp'.code \in {HTTP_200_OK, HTTP_201_CREATED, HTTP_404_NOT_FOUND,
                               HTTP_409_CONFLICT}]_vars

\* user 3 bought a ticket and wrote an event, was then deactivated, and its
\* next purchase was answered 400
C30_Witness ==
    /\ resp.op = "purchase_ticket"
    /\ resp.code = HTTP_400_BAD_REQUEST
    /\ resp.tok = 3
    /\ ~users[3].is_active
    /\ \E i \in DOMAIN tickets : tickets[i].user_id = 3
    /\ \E e \in DOMAIN events : events[e].author_id = 3
=============================================================================
